---- MODULE Spec2Model ----
(***************************************************************************)
(* A model of the backend token verification of simple-logto               *)
(* (src/src/backend/types.ts): the JWKS cache, key selection, signature    *)
(* verification through jose, claims validation, the guest fallback and    *)
(* the three entry points verifyAuth, createExpressAuthMiddleware and      *)
(* verifyNextAuth.                                                         *)
(* A second part models the React AuthProvider and the SignInPage of one   *)
(* browser window (loadUser, the popup sign-in and its completion          *)
(* signals).                                                               *)
(*                                                                         *)
(* Strings the code builds or compares piecewise (URLs, error messages,    *)
(* scopes) are sequences of symbols, so that concatenation, stripping and  *)
(* substring tests are computed the way the code computes them.            *)
(***************************************************************************)
EXTENDS Integers, Sequences, FiniteSets, TLC

\* JavaScript's undefined and null, for string-valued fields.
UNDEF == "undefined"
NULL == "null"
\* An absent numeric claim (exp, nbf).
NoNum == 0 - 1

----------------------------------------------------------------------------
(* Sequence helpers *)

\* A match of sub against the space-delimited tokens of s.
IncludesToken(s, sub) ==
  \E i \in 1..Len(s) : \E j \in i..Len(s) :
    /\ SubSeq(s, i, j) = sub
    /\ i = 1 \/ s[i - 1] = " "
    /\ j = Len(s) \/ s[j + 1] = " "

\* s.includes(sub) / the message of an error containing another message.
Includes(s, sub) ==
  \E i \in 0..(Len(s) - Len(sub)) : SubSeq(s, i + 1, i + Len(sub)) = sub

\* Number of occurrences of symbol x in s.
RECURSIVE Count(_, _)
Count(s, x) ==
  IF s = <<>> THEN 0
  ELSE (IF Head(s) = x THEN 1 ELSE 0) + Count(Tail(s), x)

----------------------------------------------------------------------------
(* URLs: <<origin, path symbols...>>, each "/" a symbol of its own. *)

\* logtoUrl.replace(/\/+$/, '')
RECURSIVE StripTrailingSlashes(_)
StripTrailingSlashes(u) ==
  IF u # <<>> /\ u[Len(u)] = "/"
  THEN StripTrailingSlashes(SubSeq(u, 1, Len(u) - 1))
  ELSE u

\* `${normalizedLogtoUrl}/oidc/jwks`
JwksUrl(logtoUrl) == StripTrailingSlashes(logtoUrl) \o <<"/", "oidc", "/", "jwks">>

\* Position of the last "/" of u, 0 when there is none.
RECURSIVE LastSlash(_)
LastSlash(u) ==
  IF u = <<>> THEN 0
  ELSE IF u[Len(u)] = "/" THEN Len(u)
  ELSE LastSlash(SubSeq(u, 1, Len(u) - 1))

\* new URL(`oidc`, logtoUrl).toString(): the relative reference replaces
\* whatever follows the last "/" of the base path; a base without a path has
\* the path "/".
ExpectedIssuer(logtoUrl) ==
  IF LastSlash(logtoUrl) = 0
  THEN logtoUrl \o <<"/", "oidc">>
  ELSE SubSeq(logtoUrl, 1, LastSlash(logtoUrl)) \o <<"oidc">>

----------------------------------------------------------------------------
(* JSON Web Keys.  mat stands for the key material: a signature made with   *)
(* the private half of mat verifies under a JWK with the same mat only.     *)

KeyA == [kid |-> "kA", alg |-> "RS256", kty |-> "RSA", use |-> "sig", mat |-> "A"]
KeyB == [kid |-> "kB", alg |-> "RS256", kty |-> "RSA", use |-> UNDEF, mat |-> "B"]
KeyE == [kid |-> "kE", alg |-> "ES256", kty |-> "EC", use |-> "sig", mat |-> "E"]
NoKey == [kid |-> UNDEF, alg |-> UNDEF, kty |-> UNDEF, use |-> UNDEF, mat |-> UNDEF]

\* The least index of hits, 0 when there is none: Array.prototype.find
\* returns the first element that passes its test.
First(hits) ==
  IF hits = {} THEN 0 ELSE CHOOSE i \in hits : \A j \in hits : i <= j

Truthy(str) == str # UNDEF /\ str # NULL /\ str # ""

MsgNoKeys == <<"No keys found in JWKS">>
MsgKidNotFound(kid) == <<"Key with kid \"", kid, "\" not found in JWKS">>

\* findMatchingKey without the kid and alg matching: the first key always.
findMatchingKeyFirst(keys, kid, alg) ==
  IF Len(keys) = 0
  THEN [ok |-> FALSE, key |-> NoKey, err |-> MsgNoKeys]
  ELSE [ok |-> TRUE, key |-> keys[1], err |-> <<>>]

\* findMatchingKey falling through to the alg match, the RSA default and
\* the first key when no key has the header's kid.
findMatchingKeyFallback(keys, kid, alg) ==
  LET byKid == First({i \in 1..Len(keys) : keys[i].kid = kid})
      byAlg == First({i \in 1..Len(keys) : keys[i].alg = alg})
      rsa == First({i \in 1..Len(keys) :
                     keys[i].kty = "RSA" /\ (keys[i].use = "sig" \/ ~Truthy(keys[i].use))})
  IN IF Len(keys) = 0
     THEN [ok |-> FALSE, key |-> NoKey, err |-> MsgNoKeys]
     ELSE IF Truthy(kid) /\ byKid # 0
     THEN [ok |-> TRUE, key |-> keys[byKid], err |-> <<>>]
     ELSE IF Truthy(alg) /\ byAlg # 0
     THEN [ok |-> TRUE, key |-> keys[byAlg], err |-> <<>>]
     ELSE IF rsa # 0
     THEN [ok |-> TRUE, key |-> keys[rsa], err |-> <<>>]
     ELSE [ok |-> TRUE, key |-> keys[1], err |-> <<>>]

\* findMatchingKey trying the RSA default before the alg match.
findMatchingKeyRsaFirst(keys, kid, alg) ==
  LET byKid == First({i \in 1..Len(keys) : keys[i].kid = kid})
      byAlg == First({i \in 1..Len(keys) : keys[i].alg = alg})
      rsa == First({i \in 1..Len(keys) :
                     keys[i].kty = "RSA" /\ (keys[i].use = "sig" \/ ~Truthy(keys[i].use))})
  IN IF Len(keys) = 0
     THEN [ok |-> FALSE, key |-> NoKey, err |-> MsgNoKeys]
     ELSE IF Truthy(kid)
     THEN IF byKid # 0
          THEN [ok |-> TRUE, key |-> keys[byKid], err |-> <<>>]
          ELSE [ok |-> FALSE, key |-> NoKey, err |-> MsgKidNotFound(kid)]
     ELSE IF rsa # 0
     THEN [ok |-> TRUE, key |-> keys[rsa], err |-> <<>>]
     ELSE IF Truthy(alg) /\ byAlg # 0
     THEN [ok |-> TRUE, key |-> keys[byAlg], err |-> <<>>]
     ELSE [ok |-> TRUE, key |-> keys[1], err |-> <<>>]

\* findMatchingKey looking the kid up before testing for an empty key set.
findMatchingKeyKidFirst(keys, kid, alg) ==
  LET byKid == First({i \in 1..Len(keys) : keys[i].kid = kid})
      byAlg == First({i \in 1..Len(keys) : keys[i].alg = alg})
      rsa == First({i \in 1..Len(keys) :
                     keys[i].kty = "RSA" /\ (keys[i].use = "sig" \/ ~Truthy(keys[i].use))})
  IN IF Truthy(kid)
     THEN IF byKid # 0
          THEN [ok |-> TRUE, key |-> keys[byKid], err |-> <<>>]
          ELSE [ok |-> FALSE, key |-> NoKey, err |-> MsgKidNotFound(kid)]
     ELSE IF Len(keys) = 0
     THEN [ok |-> FALSE, key |-> NoKey, err |-> MsgNoKeys]
     ELSE IF Truthy(alg) /\ byAlg # 0
     THEN [ok |-> TRUE, key |-> keys[byAlg], err |-> <<>>]
     ELSE IF rsa # 0
     THEN [ok |-> TRUE, key |-> keys[rsa], err |-> <<>>]
     ELSE [ok |-> TRUE, key |-> keys[1], err |-> <<>>]

\* findMatchingKey(keys, kid, alg): [ok, key, err]
findMatchingKey(keys, kid, alg) ==
  LET byKid == First({i \in 1..Len(keys) : keys[i].kid = kid})
      byAlg == First({i \in 1..Len(keys) : keys[i].alg = alg})
      rsa == First({i \in 1..Len(keys) :
                     keys[i].kty = "RSA" /\ (keys[i].use = "sig" \/ ~Truthy(keys[i].use))})
  IN IF Len(keys) = 0
     THEN [ok |-> FALSE, key |-> NoKey, err |-> MsgNoKeys]
     ELSE IF Truthy(kid)
     THEN IF byKid # 0
          THEN [ok |-> TRUE, key |-> keys[byKid], err |-> <<>>]
          ELSE [ok |-> FALSE, key |-> NoKey, err |-> MsgKidNotFound(kid)]
     ELSE IF Truthy(alg) /\ byAlg # 0
     THEN [ok |-> TRUE, key |-> keys[byAlg], err |-> <<>>]
     ELSE IF rsa # 0
     THEN [ok |-> TRUE, key |-> keys[rsa], err |-> <<>>]
     ELSE [ok |-> TRUE, key |-> keys[1], err |-> <<>>]

----------------------------------------------------------------------------
(* Claims *)

NullPayload == [isNull |-> TRUE]

MsgInvalidIssuer(expected, got) ==
  <<"Invalid issuer. Expected: ">> \o expected \o <<", Got: ">> \o got
MsgInvalidAudience(expected, got) ==
  <<"Invalid audience. Expected: ", expected, ", Got: ", got>>
MsgExpired == <<"Token has expired">>
MsgNotYetValid == <<"Token is not yet valid">>
MsgMissingScope(required) == <<"Missing required scope: ">> \o required

\* Math.floor(Date.now() / 1000)
Seconds(ms) == ms \div 1000

\* A numeric claim is truthy when present and not 0.
TruthyNum(n) == n # NoNum /\ n # 0

\* verifyTokenClaims without the audience check.
verifyTokenClaimsAnyAudience(payload, options, nowMs) ==
  LET expectedIssuer == ExpectedIssuer(options.logtoUrl)
      now == Seconds(nowMs)
  IN IF payload.iss # expectedIssuer
     THEN MsgInvalidIssuer(expectedIssuer, payload.iss)
     ELSE IF TruthyNum(payload.exp) /\ payload.exp < now
     THEN MsgExpired
     ELSE IF TruthyNum(payload.nbf) /\ payload.nbf > now
     THEN MsgNotYetValid
     ELSE IF options.requiredScope # <<>>
             /\ (payload.scope = <<>> \/ ~Includes(payload.scope, options.requiredScope))
     THEN MsgMissingScope(options.requiredScope)
     ELSE <<>>

\* verifyTokenClaims(payload, options) at clock nowMs: <<>> when it returns,
\* the message of the Error it throws otherwise.
verifyTokenClaims(payload, options, nowMs) ==
  LET expectedIssuer == ExpectedIssuer(options.logtoUrl)
      now == Seconds(nowMs)
  IN IF payload.iss # expectedIssuer
     THEN MsgInvalidIssuer(expectedIssuer, payload.iss)
     ELSE IF Truthy(options.audience) /\ payload.aud # options.audience
     THEN MsgInvalidAudience(options.audience, payload.aud)
     ELSE IF TruthyNum(payload.exp) /\ payload.exp < now
     THEN MsgExpired
     ELSE IF TruthyNum(payload.nbf) /\ payload.nbf > now
     THEN MsgNotYetValid
     ELSE IF options.requiredScope # <<>>
             /\ (payload.scope = <<>> \/ ~Includes(payload.scope, options.requiredScope))
     THEN MsgMissingScope(options.requiredScope)
     ELSE <<>>

----------------------------------------------------------------------------
(* Tokens.  A compact JWT is named by a string; Tok gives what its three   *)
(* segments hold: hdr says whether the first segment is empty ("empty"),   *)
(* decodes to something JSON.parse rejects ("badjson") or to a header      *)
(* object ("ok") with the fields kid and alg; signer is the key material   *)
(* the signature segment was made with ("X": with no key any JWKS serves). *)

Origin1 == <<"https://id.example">>
Origin2 == <<"https://id2.example">>
Issuer1 == Origin1 \o <<"/", "oidc">>

\* The instant the model starts at (ms since the epoch) and, from it, the
\* seconds the tokens' time claims are placed around.
InitNow == 1000000

Claims(sub, aud, exp, nbf, scope) ==
  [sub |-> sub, iss |-> Issuer1, aud |-> aud, exp |-> exp, nbf |-> nbf, scope |-> scope]
Jwt(kid, alg, signer, payload) ==
  [hdr |-> "ok", kid |-> kid, alg |-> alg, signer |-> signer, payload |-> payload]

FarFuture == Seconds(InitNow) * 10
PGood == Claims("user-1", "api", FarFuture, NoNum, <<"read", ":", "profile">>)

Tok(name) ==
  CASE name = "tA"       -> Jwt("kA", "RS256", "A", PGood)
    [] name = "tB"       -> Jwt("kB", "RS256", "B", PGood)
    [] name = "tBnokid"  -> Jwt(UNDEF, "RS256", "B", PGood)
    [] name = "tAnoalg"  -> Jwt("kA", UNDEF, "A", PGood)
    [] name = "tAkidB"   -> Jwt("kB", "RS256", "A", PGood)
    [] name = "tForged"  -> Jwt("kA", "RS256", "X", [PGood EXCEPT !.sub = "admin"])
    [] name = "tKid9"    -> Jwt("k9", "RS256", "X", PGood)
    [] name = "tExpiring" -> Jwt("kA", "RS256", "A", [PGood EXCEPT !.exp = Seconds(InitNow)])
    [] name = "tNotYet"  -> Jwt("kA", "RS256", "A", [PGood EXCEPT !.nbf = Seconds(InitNow) + 1])
    [] name = "tBadAud"  -> Jwt("kA", "RS256", "A", [PGood EXCEPT !.aud = "other"])
    [] name = "tBadIss"  -> Jwt("kA", "RS256", "A", [PGood EXCEPT !.iss = <<"https://evil.example", "/", "oidc">>])
    [] name = "tNoScope" -> Jwt("kA", "RS256", "A", [PGood EXCEPT !.scope = <<>>])
    [] name = "tBadJson" -> [Jwt(UNDEF, UNDEF, "X", PGood) EXCEPT !.hdr = "badjson"]
    [] OTHER             -> [Jwt(UNDEF, UNDEF, "X", PGood) EXCEPT !.hdr = "empty"]

TokenNames ==
  {"tA", "tB", "tBnokid", "tAnoalg", "tAkidB", "tForged", "tKid9", "tExpiring",
   "tNotYet", "tBadAud", "tBadIss", "tNoScope", "tBadJson", "."}

----------------------------------------------------------------------------
(* jose *)

MsgInvalidJwt == <<"Invalid JWT format">>
MsgJsonSyntax == <<"Unexpected token in JSON">>
MsgUnsupportedAlg == <<"Invalid or unsupported \"alg\" (Algorithm) value">>
MsgSignature == <<"signature verification failed">>
MsgJoseExp == <<"\"exp\" claim timestamp check failed">>
MsgJoseNbf == <<"\"nbf\" claim timestamp check failed">>

\* The algorithms a key of type kty can verify.
AlgFits(kty, alg) ==
  \/ kty = "RSA" /\ alg = "RS256"
  \/ kty = "EC" /\ alg = "ES256"

\* jwtVerify returning the decoded payload without checking the signature.
jwtVerifyNoSignature(token, jwk, nowMs) ==
  [ok |-> TRUE, sigOk |-> FALSE, payload |-> Tok(token).payload, err |-> <<>>]

\* importJWK(jwk, header?.alg || 'RS256') followed by jwtVerify(token,
\* publicKey) at clock nowMs.  jose rejects a header without alg and a key
\* that does not fit the algorithm, then checks the signature, and only then
\* reads the payload and checks exp and nbf when present (exp must be later
\* than the current second).  [ok, sigOk, payload, err]
jwtVerify(token, jwk, nowMs) ==
  LET t == Tok(token)
      importAlg == IF Truthy(t.alg) THEN t.alg ELSE "RS256"
      now == Seconds(nowMs)
      bad(sig, msg) == [ok |-> FALSE, sigOk |-> sig, payload |-> NullPayload, err |-> msg]
  IN IF jwk.kty = "RSA" /\ ~AlgFits(jwk.kty, importAlg) THEN bad(FALSE, MsgUnsupportedAlg)
     ELSE IF ~Truthy(t.alg) \/ ~AlgFits(jwk.kty, t.alg) THEN bad(FALSE, MsgUnsupportedAlg)
     ELSE IF t.signer # jwk.mat THEN bad(FALSE, MsgSignature)
     ELSE IF t.payload.exp # NoNum /\ t.payload.exp <= now THEN bad(TRUE, MsgJoseExp)
     ELSE IF t.payload.nbf # NoNum /\ t.payload.nbf > now THEN bad(TRUE, MsgJoseNbf)
     ELSE [ok |-> TRUE, sigOk |-> TRUE, payload |-> t.payload, err |-> <<>>]

----------------------------------------------------------------------------
(* Requests *)

DefaultCookieName == "logto_authtoken"
GuestCookieName == "guest_logto_authtoken"
CookieNames == {DefaultCookieName, GuestCookieName, "sid"}

\* The identifiers generateUUID may return.
Uuids == {"uuid-1", "uuid-2"}

\* extractGuestTokenFromCookies without the generateUUID fallback, the way
\* extractTokenFromCookies reads a cookie.
extractGuestTokenFromCookiesOnly(cookies, uuid) ==
  IF cookies.style \in {"next", "express"} /\ Truthy(cookies.jar[GuestCookieName])
  THEN cookies.jar[GuestCookieName]
  ELSE NULL

\* extractGuestTokenFromCookies reading plain cookie objects only.
extractGuestTokenFromCookiesExpressOnly(cookies, uuid) ==
  IF cookies.style = "express"
  THEN IF Truthy(cookies.jar[GuestCookieName]) THEN cookies.jar[GuestCookieName] ELSE uuid
  ELSE uuid

\* extractGuestTokenFromCookies generating an identifier whatever the
\* cookies carry.
extractGuestTokenFromCookiesFresh(cookies, uuid) == uuid

\* extractGuestTokenFromCookies(cookies), uuid being what generateUUID
\* returns if it is called.
extractGuestTokenFromCookies(cookies, uuid) ==
  IF cookies.style = "next"
  THEN IF Truthy(cookies.jar[GuestCookieName]) THEN cookies.jar[GuestCookieName] ELSE uuid
  ELSE IF cookies.style = "express"
  THEN IF Truthy(cookies.jar[GuestCookieName]) THEN cookies.jar[GuestCookieName] ELSE uuid
  ELSE uuid

\* extractTokenFromCookies(cookies, cookieName): the token or NULL
extractTokenFromCookies(cookies, cookieName) ==
  LET name == IF cookieName = UNDEF THEN DefaultCookieName ELSE cookieName
  IN IF cookies.style = "next"
     THEN IF Truthy(cookies.jar[name]) THEN cookies.jar[name] ELSE NULL
     ELSE IF cookies.style = "express"
     THEN IF Truthy(cookies.jar[name]) THEN cookies.jar[name] ELSE NULL
     ELSE NULL

MsgTypeError == <<"Cannot read properties of undefined (reading 'get')">>

\* extractBearerTokenFromHeaders(headers): [threw, token].  headers.get is
\* read without a guard, so an undefined headers object throws a TypeError.
extractBearerTokenFromHeaders(headers) ==
  IF ~headers.present THEN [threw |-> TRUE, token |-> NULL]
  ELSE IF headers.scheme = "Bearer" THEN [threw |-> FALSE, token |-> headers.cred]
  ELSE [threw |-> FALSE, token |-> NULL]

----------------------------------------------------------------------------
(* AuthContext values and what each entry point hands back *)

AuthenticatedContext(payload) ==
  [userId |-> payload.sub, isAuthenticated |-> TRUE, payload |-> payload,
   isGuest |-> FALSE, guestId |-> UNDEF]

\* guestId: guestId || undefined
GuestContext(guestId) ==
  [userId |-> NULL, isAuthenticated |-> FALSE, payload |-> NullPayload,
   isGuest |-> TRUE, guestId |-> IF Truthy(guestId) THEN guestId ELSE UNDEF]

\* What a finished call handed to its caller.  how: "return" / "throw" for
\* verifyAuth, "next" / "json401" for the Express middleware (auth is then
\* req.auth, error the body's message), "result" for verifyNextAuth (whose
\* result object carries success).  auth is <<>> or <<context>>, error <<>>
\* or a message.
Outcome(how, success, auth, label, error) ==
  [how |-> how, success |-> success, auth |-> auth, label |-> label, error |-> error]
NoOutcome == Outcome("none", FALSE, <<>>, "", <<>>)

MsgNoTokenInRequest == <<"No token found in request">>
MsgNoTokenAnywhere == <<"No token found in cookies or Authorization header">>
MsgNoAuthToken == <<"No authentication token found">>
TokenVerificationFailed == "Token verification failed: "

\* The request's cookies as the entry point reads them: the Express
\* middleware runs cookie-parser when req.cookies is undefined.
CookiesOf(input) ==
  IF input.api = "express" /\ input.cookies.style = "undefined"
  THEN [style |-> "express", jar |-> input.cookies.jar]
  ELSE input.cookies

\* The entry point's answer when no token was found.
NoTokenOutcome(input, uuid) ==
  LET guest == GuestContext(extractGuestTokenFromCookies(CookiesOf(input), uuid))
  IN CASE input.api = "verifyAuth" ->
            IF input.options.allowGuest
            THEN Outcome("return", TRUE, <<guest>>, "", <<>>)
            ELSE Outcome("throw", FALSE, <<>>, "", MsgNoTokenInRequest)
       [] input.api = "express" ->
            IF input.options.allowGuest
            THEN Outcome("next", TRUE, <<guest>>, "", <<>>)
            ELSE Outcome("json401", FALSE, <<>>, "Authentication required", MsgNoTokenAnywhere)
       [] OTHER ->
            IF input.options.allowGuest
            THEN Outcome("result", FALSE, <<guest>>, "", MsgNoAuthToken)
            ELSE Outcome("result", FALSE, <<>>, "", MsgNoTokenAnywhere)

\* A middleware whose catch block hands the request on when allowGuest is
\* not set.
FailureOutcomePassing(input, msg, uuid) ==
  LET guest == GuestContext(extractGuestTokenFromCookies(CookiesOf(input), uuid))
  IN CASE input.api = "verifyAuth" ->
            IF input.options.allowGuest /\ input.arg = "request"
            THEN Outcome("return", TRUE, <<guest>>, "", <<>>)
            ELSE Outcome("throw", FALSE, <<>>, "", msg)
       [] input.api = "express" ->
            IF input.options.allowGuest
            THEN Outcome("next", TRUE, <<guest>>, "", <<>>)
            ELSE Outcome("next", TRUE, <<>>, "", <<>>)
       [] OTHER ->
            IF input.options.allowGuest
            THEN Outcome("result", FALSE, <<guest>>, "", msg)
            ELSE Outcome("result", FALSE, <<>>, "", msg)

\* The entry point's answer when something it awaited threw an Error with
\* message msg (the catch blocks).
FailureOutcome(input, msg, uuid) ==
  LET guest == GuestContext(extractGuestTokenFromCookies(CookiesOf(input), uuid))
  IN CASE input.api = "verifyAuth" ->
            IF input.options.allowGuest /\ input.arg = "request"
            THEN Outcome("return", TRUE, <<guest>>, "", <<>>)
            ELSE Outcome("throw", FALSE, <<>>, "", msg)
       [] input.api = "express" ->
            IF input.options.allowGuest
            THEN Outcome("next", TRUE, <<guest>>, "", <<>>)
            ELSE Outcome("json401", FALSE, <<>>, "Authentication failed", msg)
       [] OTHER ->
            IF input.options.allowGuest
            THEN Outcome("result", FALSE, <<guest>>, "", msg)
            ELSE Outcome("result", FALSE, <<>>, "", msg)

\* The entry point's answer when verifyLogtoToken returned context.
SuccessOutcome(input, context) ==
  CASE input.api = "verifyAuth" -> Outcome("return", TRUE, <<context>>, "", <<>>)
    [] input.api = "express" -> Outcome("next", TRUE, <<context>>, "", <<>>)
    [] OTHER -> Outcome("result", TRUE, <<context>>, "", <<>>)

\* Token resolution that reads the Authorization header first.
ResolveTokenHeaderFirst(input) ==
  LET fromCookie == extractTokenFromCookies(CookiesOf(input), input.options.cookieName)
      fromHeader == extractBearerTokenFromHeaders(input.headers)
  IN IF input.arg = "string"
     THEN [found |-> TRUE, threw |-> FALSE, token |-> input.token]
     ELSE IF fromHeader.threw
     THEN [found |-> FALSE, threw |-> TRUE, token |-> NULL]
     ELSE IF Truthy(fromHeader.token)
     THEN [found |-> TRUE, threw |-> FALSE, token |-> fromHeader.token]
     ELSE [found |-> Truthy(fromCookie), threw |-> FALSE, token |-> fromCookie]

\* Token resolution of the entry point: [found, threw, token].
\* verifyAuth joins the two extractions with ||, so the header is read only
\* when the cookie gave nothing; the adapters do the same with if (!token).
ResolveToken(input) ==
  LET fromCookie == extractTokenFromCookies(CookiesOf(input), input.options.cookieName)
      fromHeader == extractBearerTokenFromHeaders(input.headers)
  IN IF input.arg = "string"
     THEN [found |-> TRUE, threw |-> FALSE, token |-> input.token]
     ELSE IF Truthy(fromCookie)
     THEN [found |-> TRUE, threw |-> FALSE, token |-> fromCookie]
     ELSE IF fromHeader.threw
     THEN [found |-> FALSE, threw |-> TRUE, token |-> NULL]
     ELSE [found |-> Truthy(fromHeader.token), threw |-> FALSE, token |-> fromHeader.token]

----------------------------------------------------------------------------
(* verifyLogtoToken, piece by piece *)

\* Lines 232-238: the first segment of token.split('.'), base64url-decoded
\* and parsed.  <<>> when a header object results, the Error's message
\* otherwise.
decodeHeader(token) ==
  IF Tok(token).hdr = "empty" THEN MsgInvalidJwt
  ELSE IF Tok(token).hdr = "badjson" THEN MsgJsonSyntax
  ELSE <<>>

\* const CACHE_DURATION = 5 * 60 * 1000
CACHE_DURATION == 300000

\* A lookup that never finds an entry: every call fetches.
CacheLookupNever(cache, jwksUrl, nowMs) == <<>>

\* A lookup that takes an entry for live during the millisecond its call
\* began in only.
CacheLookupShortTtl(cache, jwksUrl, nowMs) ==
  LET found == {e \in cache : e.url = jwksUrl}
  IN IF found = {} THEN <<>>
     ELSE LET cached == CHOOSE e \in found : TRUE
          IN IF cached.expires - CACHE_DURATION >= nowMs THEN <<cached>> ELSE <<>>

\* A lookup that serves whatever entry the Map holds, expired or not.
CacheLookupStale(cache, jwksUrl, nowMs) ==
  LET found == {e \in cache : e.url = jwksUrl}
  IN IF found = {} THEN <<>> ELSE <<CHOOSE e \in found : TRUE>>

\* jwksCache.get(jwksUrl) and the test cached && cached.expires > now:
\* <<entry>> when a live entry is found, <<>> otherwise.
CacheLookup(cache, jwksUrl, nowMs) ==
  LET found == {e \in cache : e.url = jwksUrl}
  IN IF found = {} THEN <<>>
     ELSE LET cached == CHOOSE e \in found : TRUE
          IN IF cached.expires > nowMs THEN <<cached>> ELSE <<>>

\* A write whose entry has expired as soon as it is stored.
CacheSetNoTtl(cache, jwksUrl, keys, startedMs) ==
  {e \in cache : e.url # jwksUrl}
    \cup {[url |-> jwksUrl, keys |-> keys, expires |-> startedMs]}

\* A write that appends the fetched keys to those of the entry it replaces.
CacheSetMerge(cache, jwksUrl, keys, startedMs) ==
  LET old == {e \in cache : e.url = jwksUrl}
      kept == IF old = {} THEN <<>> ELSE (CHOOSE e \in old : TRUE).keys
  IN (cache \ old)
       \cup {[url |-> jwksUrl, keys |-> kept \o keys, expires |-> startedMs + CACHE_DURATION]}

\* A write that leaves an entry alone which expires later than its own.
CacheSetFirstWins(cache, jwksUrl, keys, startedMs) ==
  IF \E e \in cache : e.url = jwksUrl /\ e.expires > startedMs + CACHE_DURATION
  THEN cache
  ELSE {e \in cache : e.url # jwksUrl}
         \cup {[url |-> jwksUrl, keys |-> keys, expires |-> startedMs + CACHE_DURATION]}

\* A write that empties the Map before it stores its entry.
CacheSetAlone(cache, jwksUrl, keys, startedMs) ==
  {[url |-> jwksUrl, keys |-> keys, expires |-> startedMs + CACHE_DURATION]}

\* jwksCache.set(jwksUrl, { keys, expires: now + CACHE_DURATION }), now
\* being the clock read when fetchJWKS began.
CacheSet(cache, jwksUrl, keys, startedMs) ==
  {e \in cache : e.url # jwksUrl}
    \cup {[url |-> jwksUrl, keys |-> keys, expires |-> startedMs + CACHE_DURATION]}

\* What the identity provider may answer to GET jwksUrl.  body "keys": a
\* JSON object with the keys array; "nokeys": a JSON object without one.
\* status "none": the request fails at the network level.
KeySets == {<<KeyA>>, <<KeyA, KeyB>>, <<KeyB>>}
Responses ==
  {[status |-> "200", body |-> "keys", keys |-> ks] : ks \in KeySets}
    \cup {[status |-> "200", body |-> "nokeys", keys |-> <<>>],
          [status |-> "500", body |-> "", keys |-> <<>>],
          [status |-> "none", body |-> "", keys |-> <<>>]}

MsgFetchFailed == <<"fetch failed">>
MsgFetchStatus(status) == <<"Failed to fetch JWKS: ", status, " ", "Internal Server Error">>
MsgFetchFrom(jwksUrl, inner) == <<"Failed to fetch JWKS from ">> \o jwksUrl \o <<": ">> \o inner

\* fetchJWKS taking every answer for a key set, an empty one when the
\* request failed.
fetchJWKSResultLenient(jwksUrl, response) ==
  [ok |-> TRUE, keys |-> IF response.body = "keys" THEN response.keys ELSE <<>>,
   cause |-> <<>>, err |-> <<>>]

\* fetchJWKS throwing when the answer has no keys array.
fetchJWKSResultKeysRequired(jwksUrl, response) ==
  IF response.status = "none"
  THEN [ok |-> FALSE, keys |-> <<>>, cause |-> MsgFetchFailed,
        err |-> MsgFetchFrom(jwksUrl, MsgFetchFailed)]
  ELSE IF response.status # "200" \/ response.body # "keys"
  THEN [ok |-> FALSE, keys |-> <<>>, cause |-> MsgFetchStatus(response.status),
        err |-> MsgFetchFrom(jwksUrl, MsgFetchStatus(response.status))]
  ELSE [ok |-> TRUE, keys |-> response.keys, cause |-> <<>>, err |-> <<>>]

\* Lines 139-157 of fetchJWKS once the response is in: [ok, keys, cause,
\* err], cause being the message of the Error first thrown and err the
\* message of the Error the catch block throws in its place.
fetchJWKSResult(jwksUrl, response) ==
  IF response.status = "none"
  THEN [ok |-> FALSE, keys |-> <<>>, cause |-> MsgFetchFailed,
        err |-> MsgFetchFrom(jwksUrl, MsgFetchFailed)]
  ELSE IF response.status # "200"
  THEN [ok |-> FALSE, keys |-> <<>>, cause |-> MsgFetchStatus(response.status),
        err |-> MsgFetchFrom(jwksUrl, MsgFetchStatus(response.status))]
  ELSE [ok |-> TRUE, keys |-> IF response.body = "keys" THEN response.keys ELSE <<>>,
        cause |-> <<>>, err |-> <<>>]

\* verifyLogtoToken validating the claims of the decoded, not yet verified
\* payload before it verifies the signature.
verifyWithKeysClaimsFirst(token, keys, options, nowMs) ==
  LET header == Tok(token)
      sel == findMatchingKey(keys, header.kid, header.alg)
      claimsErr == verifyTokenClaims(header.payload, options, nowMs)
      ver == jwtVerify(token, sel.key, nowMs)
      res(ok, stage, err, sigOk, payload, steps) ==
        [ok |-> ok, stage |-> stage, err |-> err, jwk |-> sel.key, sigOk |-> sigOk,
         payload |-> payload, steps |-> steps]
  IN IF ~sel.ok
     THEN res(FALSE, "select", sel.err, FALSE, NullPayload, <<"select">>)
     ELSE IF claimsErr # <<>>
     THEN res(FALSE, "claims", claimsErr, FALSE, NullPayload, <<"select", "validate">>)
     ELSE IF ~ver.ok
     THEN res(FALSE, IF ver.sigOk THEN "claims" ELSE "signature", ver.err, ver.sigOk,
              NullPayload, <<"select", "validate", "verify">>)
     ELSE res(TRUE, "", <<>>, TRUE, ver.payload, <<"select", "validate", "verify">>)

\* Lines 243-260: key selection, signature verification, claims validation
\* and the context built from the payload.  steps lists what ran, in order.
verifyWithKeys(token, keys, options, nowMs) ==
  LET header == Tok(token)
      sel == findMatchingKey(keys, header.kid, header.alg)
      ver == jwtVerify(token, sel.key, nowMs)
      claimsErr == verifyTokenClaims(ver.payload, options, nowMs)
      res(ok, stage, err, sigOk, payload, steps) ==
        [ok |-> ok, stage |-> stage, err |-> err, jwk |-> sel.key, sigOk |-> sigOk,
         payload |-> payload, steps |-> steps]
  IN IF ~sel.ok
     THEN res(FALSE, "select", sel.err, FALSE, NullPayload, <<"select">>)
     ELSE IF ~ver.ok
     THEN res(FALSE, IF ver.sigOk THEN "claims" ELSE "signature", ver.err, ver.sigOk,
              NullPayload, <<"select", "verify">>)
     ELSE IF claimsErr # <<>>
     THEN res(FALSE, "claims", claimsErr, TRUE, NullPayload, <<"select", "verify", "validate">>)
     ELSE res(TRUE, "", <<>>, TRUE, ver.payload, <<"select", "verify", "validate">>)

\* A catch that drops the message of the error it caught.
WrapVerificationErrorUnknown(msg) == <<TokenVerificationFailed, "Unknown error">>

\* The catch of verifyLogtoToken (line 262).
WrapVerificationError(msg) == <<TokenVerificationFailed>> \o msg

----------------------------------------------------------------------------
(* Inputs *)

Jar(auth, sid, guest) ==
  [n \in CookieNames |->
     IF n = DefaultCookieName THEN auth ELSE IF n = "sid" THEN sid ELSE guest]
Cookies(style, auth, sid, guest) == [style |-> style, jar |-> Jar(auth, sid, guest)]
NoCookies == Cookies("undefined", UNDEF, UNDEF, UNDEF)
Headers(scheme, cred) == [present |-> TRUE, scheme |-> scheme, cred |-> cred]
NoHeaders == [present |-> FALSE, scheme |-> UNDEF, cred |-> UNDEF]

Options(logtoUrl, cookieName, requiredScope, allowGuest) ==
  [logtoUrl |-> logtoUrl, audience |-> "api", cookieName |-> cookieName,
   requiredScope |-> requiredScope, allowGuest |-> allowGuest]
GuestOptions(allowGuest) == Options(Origin1, UNDEF, <<>>, allowGuest)
\* A trailing slash on logtoUrl, a cookie name of the caller's and a
\* required scope.
CustomOptions == Options(Origin1 \o <<"/">>, "sid", <<"read">>, FALSE)

\* verifyAuth(token, options)
StringInput(token, options) ==
  [api |-> "verifyAuth", arg |-> "string", token |-> token, cookies |-> NoCookies,
   headers |-> NoHeaders, options |-> options]
\* verifyAuth(request, options), the middleware of
\* createExpressAuthMiddleware(options) on request, verifyNextAuth(request,
\* options)
RequestInput(api, cookies, headers, options) ==
  [api |-> api, arg |-> "request", token |-> UNDEF, cookies |-> cookies,
   headers |-> headers, options |-> options]

\* The cookie objects each entry point may be handed, carrying the token
\* auth and the guest cookie guest.
CookieShapes(api, auth, guest) ==
  CASE api = "next" -> {Cookies("next", auth, UNDEF, guest)}
    [] api = "express" -> {Cookies("express", auth, UNDEF, guest),
                           Cookies("undefined", auth, UNDEF, guest)}
    [] OTHER -> {Cookies("express", auth, UNDEF, guest), Cookies("next", auth, UNDEF, guest)}
                  \cup (IF auth = UNDEF /\ guest = UNDEF THEN {NoCookies} ELSE {})

\* The headers objects without a Bearer token: the adapters' request types
\* always carry a headers object, verifyAuth's makes it optional.
PlainHeaders(api) ==
  {Headers(UNDEF, UNDEF), Headers("Basic", "tA")}
    \cup (IF api = "verifyAuth" THEN {NoHeaders} ELSE {})

Apis == {"verifyAuth", "express", "next"}
CookieTokens == {"tA", "tForged"}
BearerTokens == {"tA", "tForged", ""}

Inputs ==
  {StringInput(t, GuestOptions(g)) : t \in TokenNames, g \in BOOLEAN}
    \cup {StringInput(t, CustomOptions) : t \in {"tA", "tNoScope"}}
    \cup {RequestInput("express", Cookies("express", "tForged", "tA", UNDEF),
                       Headers("Bearer", "tForged"), CustomOptions)}
    \cup UNION {UNION {
           \* no token anywhere
           {RequestInput(api, c, h, GuestOptions(g)) :
              c \in UNION {CookieShapes(api, UNDEF, gc) : gc \in {UNDEF, "guest-1", ""}},
              h \in PlainHeaders(api)}
           \* a token cookie, with or without a Bearer header
           \cup {RequestInput(api, c, h, GuestOptions(g)) :
              c \in UNION {CookieShapes(api, t, "guest-1") : t \in CookieTokens},
              h \in {Headers(UNDEF, UNDEF)} \cup {Headers("Bearer", b) : b \in {"tA", "tForged"}}}
           \* a Bearer header only
           \cup {RequestInput(api, c, Headers("Bearer", b), GuestOptions(g)) :
              c \in CookieShapes(api, UNDEF, UNDEF), b \in BearerTokens}
         : api \in Apis} : g \in BOOLEAN}

NoInput == StringInput(UNDEF, Options(<<>>, UNDEF, <<>>, FALSE))

----------------------------------------------------------------------------
(* State *)

VARIABLES
  now,        \* Date.now()
  jwksCache,  \* the entries of the module's Map, each [url, keys, expires]
  calls,      \* per call slot: where the call stands and what it holds
  probe,      \* a function called on its own: its arguments and its result
  page        \* the browser window of the React AuthProvider

vars == <<now, jwksCache, calls, probe, page>>

\* Spec serves one request at a time through a single call slot.
Calls == {1}
\* How often the clock is moved.
MaxTicks == 2

\* A call slot.  pc: "idle", "fetching" (the GET is out), "keys"
\* (fetchJWKS has returned), "done".  started is the clock fetchJWKS read;
\* saw the entries the Map held for its URL then; requests the GETs the
\* call sent and reply the answer its GET got; steps, stage, cause and
\* sigOk record what ran, where it failed, the message first thrown and
\* whether jwtVerify accepted the signature.
NoReply == [status |-> "", body |-> "", keys |-> <<>>]
IdleCall ==
  [pc |-> "idle", input |-> NoInput, token |-> NULL, started |-> 0, saw |-> {},
   keys |-> <<>>, jwk |-> NoKey, out |-> NoOutcome, steps |-> <<>>, stage |-> "",
   cause |-> <<>>, sigOk |-> FALSE, requests |-> 0, reply |-> NoReply]

\* No function is being called on its own.
NoProbe == [pc |-> "none"]
\* No browser window is open.
NoPage == [pc |-> "none"]

Init ==
  /\ now = InitNow
  /\ jwksCache = {}
  /\ calls = [c \in Calls |-> IdleCall]
  /\ probe = NoProbe
  /\ page = NoPage

----------------------------------------------------------------------------
(* Actions *)

\* The call has its answer.
Finished(call, out, stage, cause) ==
  [call EXCEPT !.pc = "done", !.out = out, !.stage = stage, !.cause = cause]

\* verifyLogtoToken threw msg at stage: its catch wraps the message and the
\* entry point answers.
Rejected(call, stage, msg, cause, uuid) ==
  Finished(call, FailureOutcome(call.input, WrapVerificationError(msg), uuid),
           stage, cause)

\* The entry point is called with input and runs up to its first await
\* that waits for something: token resolution, the header's decoding and
\* the cache lookup of fetchJWKS, which sends the GET on a miss.
Begin(call, input, cache, nowMs, uuid) ==
  LET resolved == ResolveToken(input)
      c0 == [call EXCEPT !.input = input]
      c1 == [c0 EXCEPT !.token = resolved.token, !.steps = <<"decode">>]
      url == JwksUrl(input.options.logtoUrl)
      c2 == [c1 EXCEPT !.steps = <<"decode", "fetch">>, !.started = nowMs,
                       !.saw = {e \in cache : e.url = url}]
      hit == CacheLookup(cache, url, nowMs)
  IN IF resolved.threw
     THEN IF input.api = "verifyAuth"
          THEN Finished(c0, Outcome("throw", FALSE, <<>>, "", MsgTypeError),
                        "resolve", MsgTypeError)
          ELSE Finished(c0, FailureOutcome(input, MsgTypeError, uuid),
                        "resolve", MsgTypeError)
     ELSE IF ~resolved.found
     THEN Finished(c0, NoTokenOutcome(input, uuid), "resolve", <<>>)
     ELSE IF decodeHeader(resolved.token) # <<>>
     THEN Rejected(c1, "decode", decodeHeader(resolved.token),
                   decodeHeader(resolved.token), uuid)
     ELSE IF hit # <<>>
     THEN [c2 EXCEPT !.pc = "keys", !.keys = hit[1].keys]
     ELSE [c2 EXCEPT !.pc = "fetching", !.requests = 1]

\* Spec serves one request at a time, with every input of Inputs.
Invoke(c) ==
  /\ calls[c].pc = "idle"
  /\ \E input \in Inputs, uuid \in Uuids :
       calls' = [calls EXCEPT ![c] = Begin(calls[c], input, jwksCache, now, uuid)]
  /\ UNCHANGED <<now, jwksCache, probe, page>>

\* fetchJWKS reading the clock anew when it stores the keys, so that the
\* entry lives CACHE_DURATION from the arrival of the answer.
RespondStampingArrival(c) ==
  /\ calls[c].pc = "fetching"
  /\ \E response \in Responses, uuid \in Uuids :
       LET url == JwksUrl(calls[c].input.options.logtoUrl)
           got == fetchJWKSResult(url, response)
       IN IF got.ok
          THEN /\ jwksCache' = CacheSet(jwksCache, url, got.keys, now)
               /\ calls' = [calls EXCEPT ![c].pc = "keys", ![c].keys = got.keys,
                                         ![c].reply = response]
          ELSE /\ jwksCache' = jwksCache
               /\ calls' = [calls EXCEPT
                    ![c] = Rejected([calls[c] EXCEPT !.reply = response],
                                    "fetch", got.err, got.cause, uuid)]
  /\ UNCHANGED <<now, probe, page>>

\* The answer to the call's GET arrives: fetchJWKS caches and returns the
\* keys, or throws.
Respond(c) ==
  /\ calls[c].pc = "fetching"
  /\ \E response \in Responses, uuid \in Uuids :
       LET url == JwksUrl(calls[c].input.options.logtoUrl)
           got == fetchJWKSResult(url, response)
       IN IF got.ok
          THEN /\ jwksCache' = CacheSet(jwksCache, url, got.keys, calls[c].started)
               /\ calls' = [calls EXCEPT ![c].pc = "keys", ![c].keys = got.keys,
                                         ![c].reply = response]
          ELSE /\ jwksCache' = jwksCache
               /\ calls' = [calls EXCEPT
                    ![c] = Rejected([calls[c] EXCEPT !.reply = response],
                                    "fetch", got.err, got.cause, uuid)]
  /\ UNCHANGED <<now, probe, page>>

\* verifyLogtoToken dropping the endpoint's entry when no key of the key
\* set verifies the token, so that the next call fetches.
ResumeEvicting(c) ==
  /\ calls[c].pc = "keys"
  /\ \E uuid \in Uuids :
       LET call == calls[c]
           v == verifyWithKeys(call.token, call.keys, call.input.options, now)
           c1 == [call EXCEPT !.steps = call.steps \o v.steps, !.jwk = v.jwk,
                              !.sigOk = v.sigOk]
       IN /\ calls' = [calls EXCEPT ![c] =
               IF v.ok
               THEN Finished(c1, SuccessOutcome(call.input, AuthenticatedContext(v.payload)),
                             "", <<>>)
               ELSE Rejected(c1, v.stage, v.err, v.err, uuid)]
          /\ jwksCache' =
               IF ~v.ok /\ v.stage \in {"select", "signature"}
               THEN {e \in jwksCache : e.url # JwksUrl(call.input.options.logtoUrl)}
               ELSE jwksCache
  /\ UNCHANGED <<now, probe, page>>

\* verifyLogtoToken goes on with the keys fetchJWKS returned.
Resume(c) ==
  /\ calls[c].pc = "keys"
  /\ \E uuid \in Uuids :
       LET call == calls[c]
           v == verifyWithKeys(call.token, call.keys, call.input.options, now)
           c1 == [call EXCEPT !.steps = call.steps \o v.steps, !.jwk = v.jwk,
                              !.sigOk = v.sigOk]
       IN calls' = [calls EXCEPT ![c] =
            IF v.ok
            THEN Finished(c1, SuccessOutcome(call.input, AuthenticatedContext(v.payload)),
                          "", <<>>)
            ELSE Rejected(c1, v.stage, v.err, v.err, uuid)]
  /\ UNCHANGED <<now, jwksCache, probe, page>>

\* The caller has taken the answer; the slot is free again.
Return(c) ==
  /\ calls[c].pc = "done"
  /\ calls' = [calls EXCEPT ![c] = IdleCall]
  /\ UNCHANGED <<now, jwksCache, probe, page>>

\* Ticks the clock has made: each moves it by 1 ms or by CACHE_DURATION - 1.
Ticks(t) == ((t - InitNow) \div (CACHE_DURATION - 1)) + ((t - InitNow) % (CACHE_DURATION - 1))

Tick ==
  /\ Ticks(now) < MaxTicks
  /\ \E d \in {1, CACHE_DURATION - 1} : now' = now + d
  /\ UNCHANGED <<jwksCache, calls, probe, page>>

Next ==
  \/ \E c \in Calls : Invoke(c)
  \/ \E c \in Calls : Respond(c)
  \/ \E c \in Calls : Resume(c)
  \/ \E c \in Calls : Return(c)
  \/ Tick

Spec == Init /\ [][Next]_vars

\* Spec with the scheduling Node guarantees: a call whose await has
\* settled is resumed, and its caller takes its answer.  Nothing makes the
\* identity provider answer a GET, and fetch(jwksUrl) is given no signal or
\* timeout, so Respond has no fairness.
SpecLive ==
  /\ Init /\ [][Next]_vars
  /\ \A c \in Calls : WF_vars(Resume(c)) /\ WF_vars(Return(c))

----------------------------------------------------------------------------
(* verifyTokenClaims called on its own, on every payload and options of    *)
(* ProbePayloads and ProbeOptions, at the clock InitNow.                   *)

\* exp and nbf: absent, 0, and the seconds around the current one.
ProbeTimes == {NoNum, 0, Seconds(InitNow) - 1, Seconds(InitNow), Seconds(InitNow) + 1}
\* scope: absent or empty, and strings of scope names.
ProbeScopes ==
  {<<>>, <<"read", ":", "all">>, <<"read", ":", "profile">>,
   <<"write", " ", "read", ":", "all">>, <<"admin", ":", "read">>}
ProbePayloads ==
  {[sub |-> "user-1", iss |-> iss, aud |-> aud, exp |-> exp, nbf |-> nbf, scope |-> scope] :
     iss \in {Issuer1, <<"https://evil.example", "/", "oidc">>},
     aud \in {"api", "other", UNDEF}, exp \in ProbeTimes, nbf \in ProbeTimes,
     scope \in ProbeScopes}
\* audience "" or undefined: none configured.
ProbeOptions ==
  {[Options(Origin1, UNDEF, required, FALSE) EXCEPT !.audience = audience] :
     required \in {<<>>, <<"read">>, <<"admin", ":", "access">>},
     audience \in {"api", "", UNDEF}}

InitClaims ==
  /\ now = InitNow
  /\ jwksCache = {}
  /\ calls = [c \in Calls |-> IdleCall]
  /\ page = NoPage
  /\ probe \in {[pc |-> "args", payload |-> payload, options |-> options, err |-> <<>>] :
                  payload \in ProbePayloads, options \in ProbeOptions}

\* verifyTokenClaims(payload, options) returns or throws.
ValidateClaims ==
  /\ probe.pc = "args"
  /\ LET err == verifyTokenClaims(probe.payload, probe.options, now)
     IN probe' = [probe EXCEPT !.pc = IF err = <<>> THEN "returned" ELSE "threw",
                               !.err = err]
  /\ UNCHANGED <<now, jwksCache, calls, page>>

NextClaims == ValidateClaims

SpecClaims == InitClaims /\ [][NextClaims]_vars

----------------------------------------------------------------------------
(* The two URLs built from options.logtoUrl, for every logtoUrl of         *)
(* ProbeUrls: an origin followed by a path of at most MaxPathLen symbols.  *)

MaxPathLen == 5
PathSymbols == {"/", "auth", "v1"}
\* A path starts with "/" and each of its names follows a "/".
WellFormedPath(path) ==
  \A i \in 1..Len(path) : path[i] # "/" => i > 1 /\ path[i - 1] = "/"
ProbePaths ==
  UNION {{path \in [1..n -> PathSymbols] : WellFormedPath(path)} : n \in 0..MaxPathLen}
ProbeUrls == {origin \o path : origin \in {Origin1, Origin2}, path \in ProbePaths}

InitUrls ==
  /\ now = InitNow
  /\ jwksCache = {}
  /\ calls = [c \in Calls |-> IdleCall]
  /\ page = NoPage
  /\ probe \in {[pc |-> "args", logtoUrl |-> url, issuer |-> <<>>, jwksUrl |-> <<>>] :
                  url \in ProbeUrls}

\* verifyTokenClaims computes expectedIssuer and fetchJWKS computes jwksUrl
\* from the same logtoUrl.
BuildUrls ==
  /\ probe.pc = "args"
  /\ probe' = [probe EXCEPT !.pc = "built",
                            !.issuer = ExpectedIssuer(probe.logtoUrl),
                            !.jwksUrl = JwksUrl(probe.logtoUrl)]
  /\ UNCHANGED <<now, jwksCache, calls, page>>

NextUrls == BuildUrls

SpecUrls == InitUrls /\ [][NextUrls]_vars

----------------------------------------------------------------------------
(* findMatchingKey on its own, for every key set of at most MaxKeys keys   *)
(* of KeyPool and every header of ProbeKids x ProbeAlgs.                   *)

MaxKeys == 3
\* RSA keys that are not for signatures, and a symmetric key.
KeyR == [kid |-> "kR", alg |-> UNDEF, kty |-> "RSA", use |-> "enc", mat |-> "R"]
KeyP == [kid |-> "kP", alg |-> "PS256", kty |-> "RSA", use |-> "enc", mat |-> "P"]
KeyPool == {KeyA, KeyB, KeyE, KeyR, KeyP}
ProbeKeySets == UNION {[1..n -> KeyPool] : n \in 0..MaxKeys}
ProbeKids == {UNDEF, "kB", "k9"}
ProbeAlgs == {UNDEF, "RS256", "ES256", "PS256", "HS256"}

InitSelect ==
  /\ now = InitNow
  /\ jwksCache = {}
  /\ calls = [c \in Calls |-> IdleCall]
  /\ page = NoPage
  /\ probe \in {[pc |-> "args", keys |-> keys, kid |-> kid, alg |-> alg,
                  key |-> NoKey, err |-> <<>>] :
                  keys \in ProbeKeySets, kid \in ProbeKids, alg \in ProbeAlgs}

SelectKey ==
  /\ probe.pc = "args"
  /\ LET found == findMatchingKey(probe.keys, probe.kid, probe.alg)
     IN probe' = [probe EXCEPT !.pc = IF found.ok THEN "returned" ELSE "threw",
                               !.key = found.key,
                               !.err = found.err]
  /\ UNCHANGED <<now, jwksCache, calls, page>>

NextSelect == SelectKey

SpecSelect == InitSelect /\ [][NextSelect]_vars

----------------------------------------------------------------------------
(* Concurrent calls.  Node runs each call up to its next await in one      *)
(* piece, so the pieces of two calls interleave at the awaits: between     *)
(* Invoke, Respond and Resume.                                             *)

Racers == {1, 2}

\* verifyAuth(token, options) for one endpoint: the first caller is
\* configured with the logtoUrl as it is, the second with a trailing slash.
RaceInputs(c) ==
  IF c = 1
  THEN {StringInput("tA", GuestOptions(FALSE))}
  ELSE {StringInput("tA", Options(Origin1 \o <<"/">>, UNDEF, <<>>, FALSE))}

InitRace ==
  /\ now = InitNow
  /\ jwksCache = {}
  /\ calls = [c \in Racers |-> IdleCall]
  /\ probe = NoProbe
  /\ page = NoPage

\* A call that waits for the answer to a GET another call has sent to the
\* same URL instead of sending its own.
InvokeCoalescing(c) ==
  /\ calls[c].pc = "idle"
  /\ \E input \in RaceInputs(c), uuid \in Uuids :
       LET begun == Begin(calls[c], input, jwksCache, now, uuid)
           shared == \E d \in DOMAIN calls :
                       /\ d # c /\ calls[d].pc = "fetching"
                       /\ JwksUrl(calls[d].input.options.logtoUrl)
                            = JwksUrl(input.options.logtoUrl)
       IN calls' = [calls EXCEPT ![c] =
            IF begun.pc = "fetching" /\ shared
            THEN [begun EXCEPT !.requests = 0] ELSE begun]
  /\ UNCHANGED <<now, jwksCache, probe, page>>

\* A call begins while others may be waiting for their keys.
InvokeRacing(c) ==
  /\ calls[c].pc = "idle"
  /\ \E input \in RaceInputs(c), uuid \in Uuids :
       calls' = [calls EXCEPT ![c] = Begin(calls[c], input, jwksCache, now, uuid)]
  /\ UNCHANGED <<now, jwksCache, probe, page>>

NextRace ==
  \/ \E c \in Racers : InvokeRacing(c)
  \/ \E c \in Racers : Respond(c)
  \/ \E c \in Racers : Resume(c)
  \/ \E c \in Racers : Return(c)
  \/ Tick

SpecRace == InitRace /\ [][NextRace]_vars

----------------------------------------------------------------------------
(* One call after another.  The first call's slot keeps its answer while   *)
(* the second call runs, so the two can be compared.                       *)

\* What the first caller may pass: a token string, and requests under
\* allowGuest with a forged token and no guest cookie, with a forged token
\* and a guest cookie, without a token, and with a token whose nbf is yet
\* to come.
FirstInputs ==
  {StringInput("tA", GuestOptions(FALSE)),
   RequestInput("express", Cookies("express", "tForged", UNDEF, UNDEF),
                Headers(UNDEF, UNDEF), GuestOptions(TRUE)),
   RequestInput("next", Cookies("next", "tForged", UNDEF, "guest-1"),
                Headers(UNDEF, UNDEF), GuestOptions(TRUE)),
   RequestInput("verifyAuth", NoCookies, Headers(UNDEF, UNDEF), GuestOptions(TRUE)),
   RequestInput("verifyAuth", Cookies("express", "tNotYet", UNDEF, "guest-1"),
                Headers(UNDEF, UNDEF), GuestOptions(TRUE))}

\* The second caller repeats the first call, or verifies a token for
\* another endpoint.
SecondInputs(first) ==
  {first, StringInput("tA", Options(Origin2, UNDEF, <<>>, FALSE))}

InvokeInTurn(c) ==
  /\ calls[c].pc = "idle"
  /\ c = 2 => calls[1].pc = "done"
  /\ \E input \in (IF c = 1 THEN FirstInputs ELSE SecondInputs(calls[1].input)),
        uuid \in Uuids :
       calls' = [calls EXCEPT ![c] = Begin(calls[c], input, jwksCache, now, uuid)]
  /\ UNCHANGED <<now, jwksCache, probe, page>>

NextInTurn ==
  \/ \E c \in Racers : InvokeInTurn(c)
  \/ \E c \in Racers : Respond(c)
  \/ \E c \in Racers : Resume(c)
  \/ Tick

SpecInTurn == InitRace /\ [][NextInTurn]_vars

----------------------------------------------------------------------------
(* The React AuthProvider (InternalAuthProvider) and the SignInPage in one  *)
(* browser window.  isLoading and isAuthenticated are what useLogto()       *)
(* returned to the latest render; a change of either re-renders the         *)
(* provider and re-runs the effect that calls loadUser().  seen and forced  *)
(* count, for the document now in the window, the popup completion signals  *)
(* its handlers have seen and the loadUser(true) calls it has made;         *)
(* popups, redirects and pageSignIns count the window.open calls, the       *)
(* logtoSignIn calls and the signIn calls of SignInPage; failed tells       *)
(* whether a fetch of the claims has failed in this document.               *)

\* const MAX_ERROR_COUNT = 3
MAX_ERROR_COUNT == 3
\* const MIN_LOAD_INTERVAL = 1000
MIN_LOAD_INTERVAL == 1000
\* The delays of the setTimeout calls: the refresh after a storage change,
\* the refresh after a popup completion signal, the removal of the popup
\* listeners.
STORAGE_DELAY == 100
SIGNAL_DELAY == 500
CLEANUP_DELAY == 300000

\* How far the clock of the window is moved by steps of SIGNAL_DELAY, how
\* long after the start events reach the window, how many loadUser calls
\* may be waiting at once, how many timers may be set at once and how often
\* signIn is called.
MaxPageTicks == 6
MaxSignalTicks == 1
MaxLoads == 2
MaxTimers == 2
MaxSignIns == 1

TheUser == "user-1"
CompletionKey == "simple_logto_signin_complete"
StorageKeys == {CompletionKey, "logto:idToken", "theme"}
MessageTypes == {"SIGNIN_SUCCESS", "SIGNIN_COMPLETE", "PING"}
Origins == {"same", "other"}

\* e.key.includes('logto') || e.key.includes('auth')
IsAuthKey(key) == key \in {CompletionKey, "logto:idToken"}

\* loadUser with the rate limit applied to forced calls too.
loadUserRateLimited(p, forceRefresh, nowMs) ==
  IF p.isLoading /\ ~forceRefresh THEN p
  ELSE IF nowMs - p.lastLoadTime < MIN_LOAD_INTERVAL THEN p
  ELSE LET p1 == [p EXCEPT !.lastLoadTime = nowMs, !.isLoadingUser = TRUE]
       IN IF p.isAuthenticated
          THEN [p1 EXCEPT !.claimsPending = @ + 1]
          ELSE [p1 EXCEPT !.user = NULL, !.cookie = NULL, !.errorCount = 0,
                          !.isLoadingUser = FALSE]

\* loadUser(forceRefresh) up to its first await, on the window state p at
\* time nowMs.
loadUser(p, forceRefresh, nowMs) ==
  IF p.isLoading /\ ~forceRefresh THEN p
  ELSE IF ~forceRefresh /\ nowMs - p.lastLoadTime < MIN_LOAD_INTERVAL THEN p
  ELSE LET p1 == [p EXCEPT !.lastLoadTime = nowMs, !.isLoadingUser = TRUE]
       IN IF p.isAuthenticated
          THEN [p1 EXCEPT !.claimsPending = @ + 1]
          ELSE [p1 EXCEPT !.user = NULL, !.cookie = NULL, !.errorCount = 0,
                          !.isLoadingUser = FALSE]

\* loadUserRef.current(forceRefresh), the calls with forceRefresh = true
\* counted.
CallLoadUser(p, forceRefresh, nowMs) ==
  LET q == loadUser(p, forceRefresh, nowMs)
  IN IF forceRefresh THEN [q EXCEPT !.forced = @ + 1] ELSE q

\* A failure that forces the logout one failure later.
claimsSettledLate(p, result, jwt) ==
  IF result = "ok"
  THEN [p EXCEPT !.claimsPending = @ - 1,
                 !.cookie = IF jwt # "" THEN jwt ELSE @,
                 !.user = TheUser, !.errorCount = 0, !.isLoadingUser = FALSE]
  ELSE LET p1 == [p EXCEPT !.claimsPending = @ - 1, !.errorCount = @ + 1,
                           !.user = NULL, !.cookie = NULL, !.failed = TRUE]
       IN IF result = "invalid" \/ p1.errorCount > MAX_ERROR_COUNT
          THEN [p1 EXCEPT !.signOutPending = @ + 1]
          ELSE [p1 EXCEPT !.isLoadingUser = FALSE]

\* loadUser after getIdTokenClaims and getAccessToken have settled: result
\* "ok" with the access token jwt, "error" for an Error of any kind,
\* "invalid" for one whose message or code marks an authentication error.
claimsSettled(p, result, jwt) ==
  IF result = "ok"
  THEN [p EXCEPT !.claimsPending = @ - 1,
                 !.cookie = IF jwt # "" THEN jwt ELSE @,
                 !.user = TheUser, !.errorCount = 0, !.isLoadingUser = FALSE]
  ELSE LET p1 == [p EXCEPT !.claimsPending = @ - 1, !.errorCount = @ + 1,
                           !.user = NULL, !.cookie = NULL, !.failed = TRUE]
       IN IF result = "invalid" \/ p1.errorCount >= MAX_ERROR_COUNT
          THEN [p1 EXCEPT !.signOutPending = @ + 1]
          ELSE [p1 EXCEPT !.isLoadingUser = FALSE]

\* loadUser after the forced logtoSignOut() has settled; when it threw, the
\* catch dispatches 'auth-state-changed', whose listener handleAuthChange
\* calls loadUser().
signOutSettled(p, ok, nowMs) ==
  LET p1 == [p EXCEPT !.signOutPending = @ - 1]
      p2 == IF ok THEN p1 ELSE CallLoadUser(p1, FALSE, nowMs)
  IN [p2 EXCEPT !.errorCount = 0, !.isLoadingUser = FALSE]

\* setTimeout(callback, delay)
SetTimeout(p, kind, delay, nowMs) ==
  [p EXCEPT !.timers = Append(@, [due |-> nowMs + delay, kind |-> kind])]

\* handleStorageChange(e)
handleStorageChange(p, key, nowMs) ==
  LET p1 == IF IsAuthKey(key) THEN SetTimeout(p, "refresh", STORAGE_DELAY, nowMs) ELSE p
  IN IF key = CompletionKey
     THEN [SetTimeout(p1, "completed", SIGNAL_DELAY, nowMs) EXCEPT !.seen = @ + 1]
     ELSE p1

\* handleMessage without the comparison of origins.
handleMessageAnyOrigin(p, origin, type, nowMs) ==
  IF type \in {"SIGNIN_SUCCESS", "SIGNIN_COMPLETE"}
  THEN [SetTimeout(p, "completed", SIGNAL_DELAY, nowMs) EXCEPT
          !.seen = @ + 1, !.popup = "closed", !.polling = FALSE]
  ELSE p

\* handleMessage(event) of signIn's popup branch
handleMessage(p, origin, type, nowMs) ==
  IF origin # "same" THEN p
  ELSE IF type \in {"SIGNIN_SUCCESS", "SIGNIN_COMPLETE"}
  THEN [SetTimeout(p, "completed", SIGNAL_DELAY, nowMs) EXCEPT
          !.seen = @ + 1, !.popup = "closed", !.polling = FALSE]
  ELSE p

\* The checkClosed interval of signIn's popup branch finding popup.closed.
checkClosed(p, nowMs) ==
  IF p.popup = "closed"
  THEN [SetTimeout(p, "completed", SIGNAL_DELAY, nowMs) EXCEPT
          !.seen = @ + 1, !.polling = FALSE]
  ELSE p

\* The callbacks of the timers.  "completed": loadUser(true),
\* window.location.reload() and the dispatch of 'auth-state-changed', whose
\* listener calls loadUser().  "cleanup": cleanupListener.
TimerCallback(p, kind, nowMs) ==
  CASE kind = "refresh" -> CallLoadUser(p, FALSE, nowMs)
    [] kind = "completed" ->
         [CallLoadUser(CallLoadUser(p, TRUE, nowMs), FALSE, nowMs) EXCEPT !.reloading = TRUE]
    [] OTHER -> [p EXCEPT !.listening = FALSE, !.polling = FALSE]

\* signIn without the test for window.opener.
signInAnywhere(p, usePopup, nowMs) ==
  LET shouldUsePopup == IF usePopup = UNDEF THEN p.enablePopupSignIn ELSE usePopup = "true"
  IN IF ~shouldUsePopup
     THEN [p EXCEPT !.redirects = @ + 1]
     ELSE [SetTimeout(p, "cleanup", CLEANUP_DELAY, nowMs) EXCEPT
             !.popups = @ + 1, !.popup = "open", !.polling = TRUE, !.listening = TRUE]

\* signIn(overrideCallbackUrl, usePopup), usePopup being UNDEF, "true" or
\* "false".
signIn(p, usePopup, nowMs) ==
  LET shouldUsePopup == IF usePopup = UNDEF THEN p.enablePopupSignIn ELSE usePopup = "true"
  IN IF p.opener
     THEN [p EXCEPT !.redirects = @ + 1]
     ELSE IF ~shouldUsePopup
     THEN [p EXCEPT !.redirects = @ + 1]
     ELSE [SetTimeout(p, "cleanup", CLEANUP_DELAY, nowMs) EXCEPT
             !.popups = @ + 1, !.popup = "open", !.polling = TRUE, !.listening = TRUE]

\* The effect of SignInPage: notified stands for the message to the opener
\* or the localStorage fallback with the window's closing, or the
\* navigation to '/'.
SignInPageEffect(p, nowMs) ==
  IF p.isLoadingUser THEN p
  ELSE IF p.user # NULL THEN [p EXCEPT !.notified = TRUE]
  ELSE IF ~p.signInInProgress
  THEN [signIn(p, "false", nowMs) EXCEPT !.signInInProgress = TRUE, !.pageSignIns = @ + 1]
  ELSE p

\* The window after the first render of a document, before any effect has
\* run: Logto's state as useLogto() first returns it and the cookie jar as
\* the browser kept it.
FreshPage(opener, popupSignIn, loading, authenticated, cookie) ==
  [pc |-> "rendered", opener |-> opener, enablePopupSignIn |-> popupSignIn,
   isLoading |-> loading, isAuthenticated |-> authenticated,
   user |-> NULL, isLoadingUser |-> TRUE, cookie |-> cookie,
   lastLoadTime |-> 0, errorCount |-> 0, claimsPending |-> 0, signOutPending |-> 0,
   timers |-> <<>>, popup |-> "none", listening |-> FALSE, polling |-> FALSE,
   reloading |-> FALSE, signInInProgress |-> FALSE, notified |-> FALSE,
   pageSignIns |-> 0, popups |-> 0, redirects |-> 0, seen |-> 0, forced |-> 0,
   failed |-> FALSE]

InitPage ==
  /\ now = InitNow
  /\ jwksCache = {}
  /\ calls = [c \in Calls |-> IdleCall]
  /\ probe = NoProbe
  /\ page \in {FreshPage(opener, popupSignIn, loading, authenticated, NULL) :
                 opener \in BOOLEAN, popupSignIn \in BOOLEAN,
                 loading \in BOOLEAN, authenticated \in BOOLEAN}

Mounted == page.pc = "mounted"
\* Another loadUser call may wait.
Room == page.claimsPending + page.signOutPending < MaxLoads
\* Events reach the window at multiples of SIGNAL_DELAY, within the time
\* the clock is moved over.
OnTime ==
  /\ (now - InitNow) % SIGNAL_DELAY = 0
  /\ now <= InitNow + MaxSignalTicks * SIGNAL_DELAY

\* The effects of the first render: useEffect(() => { loadUser() }) and the
\* registration of the storage, focus and auth-state-changed listeners.
Mount ==
  /\ page.pc = "rendered"
  /\ page' = [CallLoadUser(page, FALSE, now) EXCEPT !.pc = "mounted"]
  /\ UNCHANGED <<now, jwksCache, calls, probe>>

\* useLogto() returns a new isLoading or isAuthenticated: the provider
\* renders again with a new loadUser, and the effect calls it.
LogtoChange ==
  /\ Mounted /\ Room
  /\ \E loading \in BOOLEAN, authenticated \in BOOLEAN :
       /\ <<loading, authenticated>> # <<page.isLoading, page.isAuthenticated>>
       /\ page' = CallLoadUser([page EXCEPT !.isLoading = loading,
                                            !.isAuthenticated = authenticated],
                               FALSE, now)
  /\ UNCHANGED <<now, jwksCache, calls, probe>>

\* refreshAuth(), or an 'auth-state-changed' event from elsewhere in the
\* application: loadUserRef.current()
RefreshAuth ==
  /\ Mounted /\ Room
  /\ page' = CallLoadUser(page, FALSE, now)
  /\ page' # page
  /\ UNCHANGED <<now, jwksCache, calls, probe>>

ClaimsSettle ==
  /\ page.claimsPending > 0
  /\ \E result \in {"ok", "error", "invalid"}, jwt \in {"jwt", ""} :
       page' = claimsSettled(page, result, jwt)
  /\ UNCHANGED <<now, jwksCache, calls, probe>>

SignOutSettle ==
  /\ page.signOutPending > 0
  /\ \E ok \in BOOLEAN : page' = signOutSettled(page, ok, now)
  /\ UNCHANGED <<now, jwksCache, calls, probe>>

\* A storage event from another window.
StorageEvent ==
  /\ Mounted /\ OnTime
  /\ \E key \in StorageKeys :
       /\ page' = handleStorageChange(page, key, now)
       /\ page' # page
       /\ Len(page'.timers) <= MaxTimers
  /\ UNCHANGED <<now, jwksCache, calls, probe>>

\* A message event while signIn's listener is registered.
MessageEvent ==
  /\ Mounted /\ OnTime /\ page.listening
  /\ \E origin \in Origins, type \in MessageTypes :
       /\ page' = handleMessage(page, origin, type, now)
       /\ Len(page'.timers) <= MaxTimers
  /\ UNCHANGED <<now, jwksCache, calls, probe>>

\* The popup is closed, by its user or by itself.
PopupCloses ==
  /\ page.popup = "open"
  /\ page' = [page EXCEPT !.popup = "closed"]
  /\ UNCHANGED <<now, jwksCache, calls, probe>>

\* The interval of signIn runs and finds the popup closed.
CheckClosed ==
  /\ Mounted /\ OnTime /\ page.polling /\ page.popup = "closed"
  /\ page' = checkClosed(page, now)
  /\ Len(page'.timers) <= MaxTimers
  /\ UNCHANGED <<now, jwksCache, calls, probe>>

\* The application calls signIn of the context.
UserSignIn ==
  /\ Mounted /\ OnTime /\ page.popup = "none"
  /\ page.popups + page.redirects < MaxSignIns
  /\ \E usePopup \in {UNDEF, "true", "false"} :
       /\ page' = signIn(page, usePopup, now)
       /\ Len(page'.timers) <= MaxTimers
  /\ UNCHANGED <<now, jwksCache, calls, probe>>

\* The effect of SignInPage runs, after the first render or after a change
\* of user, isLoadingUser or signIn.
RunSignInPageEffect ==
  /\ Mounted
  /\ page' = SignInPageEffect(page, now)
  /\ page' # page
  /\ UNCHANGED <<now, jwksCache, calls, probe>>

\* The timer to fire next: the earliest due, the first set among equals.
NextTimer(timers) ==
  CHOOSE i \in 1..Len(timers) :
    /\ \A j \in 1..Len(timers) : timers[i].due <= timers[j].due
    /\ \A j \in 1..(i - 1) : timers[j].due # timers[i].due
Without(timers, i) == SubSeq(timers, 1, i - 1) \o SubSeq(timers, i + 1, Len(timers))

\* The next timer fires, at its due time at the earliest.
FireTimer ==
  /\ page.pc # "none"
  /\ page.timers # <<>>
  /\ LET i == NextTimer(page.timers)
         due == page.timers[i].due
         at == IF due > now THEN due ELSE now
     IN /\ now' = at
        /\ page' = TimerCallback([page EXCEPT !.timers = Without(@, i)],
                                 page.timers[i].kind, at)
  /\ UNCHANGED <<jwksCache, calls, probe>>

\* Time passes in the window, no timer being due before.
TickPage ==
  /\ page.pc # "none"
  /\ now < InitNow + MaxPageTicks * SIGNAL_DELAY
  /\ LET next == (((now - InitNow) \div SIGNAL_DELAY) + 1) * SIGNAL_DELAY + InitNow
     IN /\ \A i \in 1..Len(page.timers) : page.timers[i].due >= next
        /\ now' = next
  /\ UNCHANGED <<jwksCache, calls, probe, page>>

\* window.location.reload() takes effect: a new document, with the cookies
\* of the old and without its timers, listeners and pending calls.
Reload ==
  /\ page.pc # "none"
  /\ page.reloading
  /\ \E loading \in BOOLEAN, authenticated \in BOOLEAN :
       page' = FreshPage(page.opener, page.enablePopupSignIn, loading, authenticated,
                         page.cookie)
  /\ UNCHANGED <<now, jwksCache, calls, probe>>

\* The provider alone: Logto's state changes, the application asks for
\* refreshes, the claims and the forced logouts settle.
NextProvider ==
  \/ Mount
  \/ LogtoChange
  \/ RefreshAuth
  \/ ClaimsSettle
  \/ SignOutSettle
  \/ TickPage

SpecProvider == InitPage /\ [][NextProvider]_vars

\* React runs the effects of a render, a pending promise settles and time
\* passes; Logto's changes and the application's refreshes are free.
SpecProviderLive ==
  /\ SpecProvider
  /\ WF_vars(Mount) /\ WF_vars(ClaimsSettle) /\ WF_vars(SignOutSettle) /\ WF_vars(TickPage)

\* The popup sign-in in a window whose Logto state stays as it was first
\* rendered.
NextSignals ==
  \/ Mount
  \/ ClaimsSettle
  \/ SignOutSettle
  \/ StorageEvent
  \/ MessageEvent
  \/ PopupCloses
  \/ CheckClosed
  \/ UserSignIn
  \/ FireTimer
  \/ Reload

SpecSignals == InitPage /\ [][NextSignals]_vars

\* React runs the effects of a render, pending promises settle, a timer
\* that is set fires and a reload that was asked for happens; the events
\* from outside are free.
SpecSignalsLive ==
  /\ SpecSignals
  /\ WF_vars(Mount) /\ WF_vars(ClaimsSettle) /\ WF_vars(SignOutSettle)
  /\ WF_vars(FireTimer) /\ WF_vars(Reload)

\* The window of a SignInPage.
NextSignInPage ==
  \/ Mount
  \/ LogtoChange
  \/ ClaimsSettle
  \/ SignOutSettle
  \/ UserSignIn
  \/ RunSignInPageEffect
  \/ FireTimer
  \/ TickPage

SpecSignInPage == InitPage /\ [][NextSignInPage]_vars

----------------------------------------------------------------------------
(* Properties *)

Slots == DOMAIN calls
Done(call) == call.pc = "done"
Header(call) == Tok(call.token)
PipelineStages == {"decode", "fetch", "select", "signature", "claims"}
FullOrder == <<"decode", "fetch", "select", "verify", "validate">>
IsPrefix(s, t) == Len(s) <= Len(t) /\ s = SubSeq(t, 1, Len(s))
Ran(call, step) == \E i \in 1..Len(call.steps) : call.steps[i] = step

Authenticated(out) == out.auth # <<>> /\ out.auth[1].isAuthenticated
Guest(out) == out.auth # <<>> /\ out.auth[1].isGuest

\* The call has finished and the Key Store had handed it a key set.
KeysSupplied(call) == Done(call) /\ Ran(call, "select")
\* The token's signature matches no key of that key set.
SignedByNone(call) ==
  \A i \in 1..Len(call.keys) : call.keys[i].mat # Header(call).signer

\* C1 as stated: a token whose signature matches no key of the supplied
\* key set is never authenticated, and the call ends with a
\* signature-verification failure, or with a guest context under allowGuest.
C1_SignatureFailureOrGuest ==
  \A c \in Slots :
    KeysSupplied(calls[c]) /\ SignedByNone(calls[c]) =>
      /\ ~Authenticated(calls[c].out)
      /\ \/ calls[c].stage = "signature" /\ ~Guest(calls[c].out)
         \/ calls[c].input.options.allowGuest /\ Guest(calls[c].out)

\* C1 amended: such a token is never authenticated; the call ends with a
\* key-selection failure (empty key set, kid not found) or a
\* signature-verification failure, reported as an error, or as a guest
\* context only under allowGuest.
C1_NeverAuthenticatedWithoutMatchingKey ==
  \A c \in Slots :
    KeysSupplied(calls[c]) /\ SignedByNone(calls[c]) =>
      /\ ~Authenticated(calls[c].out)
      /\ calls[c].stage \in {"select", "signature"}
      /\ IF Guest(calls[c].out)
         THEN calls[c].input.options.allowGuest
         ELSE calls[c].out.auth = <<>> /\ calls[c].out.error # <<>>

C1_Witness ==
  \E c \in Slots :
    /\ Done(calls[c]) /\ calls[c].token = "tForged" /\ calls[c].keys = <<KeyA>>
    /\ calls[c].stage = "signature" /\ calls[c].out.how = "throw"

\* C2: the steps of a verification run in the order decode header, fetch
\* keys, select key, verify signature, validate claims, none skipped;
\* claims are validated and an authenticated context is built only after
\* the signature was verified in the same call.
C2_StepsInOrder ==
  \A c \in Slots :
    /\ IsPrefix(calls[c].steps, FullOrder)
    /\ Ran(calls[c], "validate") => calls[c].sigOk
    /\ Authenticated(calls[c].out) => calls[c].steps = FullOrder /\ calls[c].sigOk

C2_Witness ==
  \E c \in Slots :
    Done(calls[c]) /\ Authenticated(calls[c].out) /\ calls[c].steps = FullOrder

\* The token of the call is signed by a key of the fetched key set, has the
\* expected issuer, the audience and the required scope, and its nbf, if
\* any, had passed when the call began.
SignedAndClaimsMatch(call) ==
  LET p == Header(call).payload
      o == call.input.options
  IN /\ KeysSupplied(call)
     /\ \E i \in 1..Len(call.keys) : call.keys[i].mat = Header(call).signer
     /\ p.iss = StripTrailingSlashes(o.logtoUrl) \o <<"/", "oidc">>
     /\ p.aud = o.audience
     /\ o.requiredScope = <<>> \/ Includes(p.scope, o.requiredScope)
     /\ p.nbf = NoNum \/ p.nbf <= Seconds(call.started)

ReturnsSubject(call) ==
  Authenticated(call.out) /\ call.out.auth[1].userId = Header(call).payload.sub

\* The header carries an alg that fits the signing key and selects it: its
\* kid is that of the signing key (the first key with that kid), or it has
\* no kid and the signing key is the first key with the header's alg.
HeaderSelectsSigner(call) ==
  LET t == Header(call)
      ks == call.keys
  IN \E i \in 1..Len(ks) :
       /\ ks[i].mat = t.signer
       /\ Truthy(t.alg) /\ AlgFits(ks[i].kty, t.alg)
       /\ IF Truthy(t.kid)
          THEN ks[i].kid = t.kid /\ \A j \in 1..(i - 1) : ks[j].kid # t.kid
          ELSE ks[i].alg = t.alg /\ \A j \in 1..(i - 1) : ks[j].alg # t.alg

C4_KidNeverSubstituted ==
  \A c \in Slots :
    KeysSupplied(calls[c]) /\ Truthy(Header(calls[c]).kid) /\ calls[c].keys # <<>> =>
      \/ calls[c].jwk # NoKey /\ calls[c].jwk.kid = Header(calls[c]).kid
      \/ /\ calls[c].jwk = NoKey /\ calls[c].stage = "select"
         /\ calls[c].cause = MsgKidNotFound(Header(calls[c]).kid)
         /\ ~Authenticated(calls[c].out)

C4_Witness ==
  \E c \in Slots :
    /\ KeysSupplied(calls[c]) /\ calls[c].token = "tKid9" /\ calls[c].keys = <<KeyA, KeyB>>
    /\ calls[c].stage = "select"

AuthenticatedShape(x) ==
  /\ x.isAuthenticated /\ ~x.isGuest
  /\ x.userId \notin {NULL, UNDEF} /\ x.payload # NullPayload
GuestShape(x) ==
  /\ ~x.isAuthenticated /\ x.isGuest
  /\ x.userId = NULL /\ x.payload = NullPayload /\ Truthy(x.guestId)

C6_GuestOnEveryFailure ==
  \A c \in Slots :
    /\ Done(calls[c]) /\ calls[c].input.api = "verifyAuth"
    /\ calls[c].input.options.allowGuest
    /\ calls[c].stage \in PipelineStages
    => /\ calls[c].out.how = "return" /\ Guest(calls[c].out)
       /\ calls[c].out.error = <<>>

\* C7: without allowGuest, a failure of the pipeline reaches the caller as
\* one error whose message is the token-verification prefix, once,
\* followed by a message that contains the message first thrown.
C7_WrappedOnce ==
  \A c \in Slots :
    /\ Done(calls[c]) /\ ~calls[c].input.options.allowGuest
    /\ calls[c].stage \in PipelineStages
    => /\ calls[c].out.auth = <<>>
       /\ calls[c].out.error # <<>>
       /\ Head(calls[c].out.error) = TokenVerificationFailed
       /\ Count(calls[c].out.error, TokenVerificationFailed) = 1
       /\ calls[c].cause # <<>>
       /\ Includes(Tail(calls[c].out.error), calls[c].cause)
       /\ calls[c].input.api = "verifyAuth" => calls[c].out.how = "throw"

C7_Witness ==
  \E c \in Slots :
    /\ Done(calls[c]) /\ ~calls[c].input.options.allowGuest
    /\ calls[c].stage = "fetch" /\ calls[c].out.how = "throw"
    /\ calls[c].cause = MsgFetchStatus("500")

\* The token cookie of the call's request, under the configured name.
TokenCookie(call) ==
  LET name == IF call.input.options.cookieName = UNDEF
              THEN DefaultCookieName ELSE call.input.options.cookieName
  IN call.input.cookies.jar[name]
HasBearer(call) ==
  call.input.headers.present /\ call.input.headers.scheme = "Bearer"

\* C8 as stated: a request with neither the auth cookie nor a Bearer
\* header gets a guest context under allowGuest and the no-token error
\* otherwise, without any use of the Key Store or the network.
C8_NoTokenGuestOrError ==
  \A c \in Slots :
    /\ Done(calls[c]) /\ calls[c].input.arg = "request"
    /\ ~Truthy(TokenCookie(calls[c])) /\ ~HasBearer(calls[c])
    => /\ IF calls[c].input.options.allowGuest
          THEN Guest(calls[c].out)
          ELSE /\ calls[c].out.auth = <<>>
               /\ calls[c].out.error \in {MsgNoTokenInRequest, MsgNoTokenAnywhere}
       /\ calls[c].requests = 0 /\ calls[c].steps = <<>>

\* C9: with both a token cookie and a Bearer header the cookie token is
\* the one verified, once, and it alone decides the outcome.
C9_CookieBeforeHeader ==
  \A c \in Slots :
    /\ calls[c].pc # "idle" /\ calls[c].input.arg = "request"
    /\ Truthy(TokenCookie(calls[c]))
    /\ HasBearer(calls[c]) /\ Truthy(calls[c].input.headers.cred)
    => /\ calls[c].token = TokenCookie(calls[c])
       /\ Count(calls[c].steps, "decode") = 1
       /\ Authenticated(calls[c].out) =>
            calls[c].out.auth[1].payload = Tok(TokenCookie(calls[c])).payload

C9_Witness ==
  \E c \in Slots :
    /\ Done(calls[c]) /\ calls[c].input.api = "express"
    /\ TokenCookie(calls[c]) = "tForged" /\ HasBearer(calls[c])
    /\ calls[c].input.headers.cred = "tA" /\ calls[c].keys = <<KeyA>>
    /\ calls[c].out.how = "json401"

\* C10: a getKeys call that starts while the cache holds an entry for its
\* URL that expires later than the current time returns that entry's keys
\* and sends no HTTP request.
C10_LiveEntryServed ==
  \A c \in Slots :
    Ran(calls[c], "fetch") =>
      \A e \in calls[c].saw :
        e.expires > calls[c].started =>
          calls[c].keys = e.keys /\ calls[c].requests = 0

C10_Witness ==
  \E c \in Slots :
    /\ calls[c].pc = "keys" /\ calls[c].requests = 0
    /\ calls[c].started = InitNow + CACHE_DURATION - 1
    /\ \E e \in calls[c].saw : e.expires = InitNow + CACHE_DURATION /\ e.keys = calls[c].keys

----------------------------------------------------------------------------
(* The Key Store: fetchJWKS and its cache *)

\* The endpoint the call's getKeys asks.
Url(call) == JwksUrl(call.input.options.logtoUrl)
\* The key list an answer carries.
ReplyKeys(reply) ==
  IF reply.status = "200" /\ reply.body = "keys" THEN reply.keys ELSE <<>>
\* The call sent a GET, got a 2xx answer and stored its keys.
Stored(call) ==
  call.pc \in {"keys", "done"} /\ call.requests = 1 /\ call.reply.status = "200"
\* The entry such a call stored.
EntryOf(call) ==
  [url |-> Url(call), keys |-> ReplyKeys(call.reply),
   expires |-> call.started + CACHE_DURATION]
\* The call's getKeys began and found no entry for its URL that expires
\* later than the time it began at.
Missed(call) ==
  Ran(call, "fetch") /\ \A e \in call.saw : e.expires <= call.started
Apart(t1, t2) == IF t1 >= t2 THEN t1 - t2 ELSE t2 - t1

\* C11 as stated: any two getKeys calls for one endpoint that begin less
\* than a TTL apart send at most one GET between them, and a call that
\* finds the entry expired sends one.
C11_OneFetchPerWindow ==
  /\ \A c, d \in Slots :
       /\ c # d /\ Ran(calls[c], "fetch") /\ Ran(calls[d], "fetch")
       /\ Url(calls[c]) = Url(calls[d])
       /\ Apart(calls[c].started, calls[d].started) < CACHE_DURATION
       => calls[c].requests + calls[d].requests <= 1
  /\ \A d \in Slots :
       Missed(calls[d]) /\ calls[d].saw # {} => calls[d].requests = 1

\* C11 amended: of two getKeys calls for one endpoint, the second
\* beginning when the first has stored its keys and no call has replaced
\* them since, the second sends no GET if it begins before that entry's
\* expiry (one GET between the two) and sends a new one otherwise.
C11_OneFetchAfterStore ==
  \A c, d \in Slots :
    /\ c # d /\ Stored(calls[c]) /\ Ran(calls[d], "fetch")
    /\ EntryOf(calls[c]) \in calls[d].saw
    => IF calls[d].started < calls[c].started + CACHE_DURATION
       THEN /\ calls[d].requests = 0 /\ calls[d].keys = calls[c].keys
            /\ calls[c].requests + calls[d].requests = 1
       ELSE calls[d].requests = 1

C11_Witness ==
  \E c, d \in Slots :
    /\ c # d /\ Stored(calls[c]) /\ EntryOf(calls[c]) \in calls[d].saw
    /\ calls[d].started = calls[c].started + 1
    /\ calls[d].input # calls[c].input
    /\ calls[d].pc = "keys" /\ calls[d].requests = 0

\* C12: a getKeys call that finds an entry whose expiry is at or before
\* the time of the call sends a GET, and the keys it returns are those of
\* the answer to it.
C12_ExpiredEntryRefetched ==
  \A c \in Slots :
    Missed(calls[c]) /\ calls[c].saw # {} =>
      /\ calls[c].requests = 1
      /\ calls[c].pc = "keys" \/ Ran(calls[c], "select") =>
           /\ calls[c].reply.status = "200"
           /\ calls[c].keys = ReplyKeys(calls[c].reply)

C12_Witness ==
  \E c \in Slots :
    /\ calls[c].pc = "keys" /\ calls[c].requests = 1
    /\ \E e \in calls[c].saw : e.expires = calls[c].started /\ e.keys # calls[c].keys
    /\ calls[c].keys = ReplyKeys(calls[c].reply) /\ calls[c].keys # <<>>

\* The message the failed GET's error must carry: the status, or the
\* network error's message.
Carries(cause, reply) ==
  IF reply.status = "none" THEN Includes(cause, MsgFetchFailed)
  ELSE Includes(cause, <<reply.status>>)

\* C13: when the answer to the GET is not 2xx, or the request fails, the
\* call fails at the fetch with an error carrying the status or message
\* and the step leaves the cache as it was: no entry created, an expired
\* entry neither refreshed nor removed.
C13_FailedFetchLeavesCache ==
  [][\A c \in DOMAIN calls :
       /\ calls[c].pc = "fetching" /\ calls'[c].pc # "fetching"
       /\ calls'[c].reply.status # "200"
       => /\ jwksCache' = jwksCache
          /\ calls'[c].pc = "done" /\ calls'[c].stage = "fetch"
          /\ ~Authenticated(calls'[c].out)
          /\ Carries(calls'[c].cause, calls'[c].reply)
          /\ ~calls'[c].input.options.allowGuest =>
               Includes(calls'[c].out.error, calls'[c].cause)]_vars

C13_Witness ==
  \E c \in Slots :
    /\ Done(calls[c]) /\ calls[c].stage = "fetch" /\ calls[c].reply.status = "500"
    /\ calls[c].saw # {} /\ Missed(calls[c])
    /\ jwksCache = calls[c].saw

\* C14: the cache holds at most one entry per normalized endpoint URL, and
\* a step that changes the cache is one call's write, which puts the key
\* list of that call's answer in the place of the URL's entry and leaves
\* every other entry as it was.
C14_OneEntryOneResponse ==
  /\ [](\A e1, e2 \in jwksCache : e1.url = e2.url => e1 = e2)
  /\ [](\A e \in jwksCache : e.url = StripTrailingSlashes(Origin1)
                                       \o <<"/", "oidc", "/", "jwks">>)
  /\ [][jwksCache' # jwksCache =>
          \E c \in DOMAIN calls :
            /\ calls[c].pc = "fetching" /\ calls'[c].pc = "keys"
            /\ \A e \in jwksCache' :
                 \/ e \in jwksCache /\ e.url # Url(calls[c])
                 \/ e.url = Url(calls[c]) /\ e.keys = ReplyKeys(calls'[c].reply)
            /\ \A e \in jwksCache : e.url # Url(calls[c]) => e \in jwksCache']_vars

C14_Witness ==
  \E c, d \in Slots :
    /\ c # d /\ Stored(calls[c]) /\ Stored(calls[d])
    /\ calls[c].input # calls[d].input
    /\ ReplyKeys(calls[c].reply) = <<KeyA>> /\ ReplyKeys(calls[d].reply) = <<KeyB>>
    /\ jwksCache = {EntryOf(calls[d])}

\* C15: a call whose GET is answered returns the key list of its own
\* answer, and its write leaves its own entry in the cache, whatever
\* another call wrote before it.
C15_LastWriterWins ==
  /\ [](\A c \in DOMAIN calls :
          Stored(calls[c]) => calls[c].keys = ReplyKeys(calls[c].reply))
  /\ [][\A c \in DOMAIN calls :
          calls[c].pc = "fetching" /\ calls'[c].pc = "keys" =>
            /\ calls'[c].keys = ReplyKeys(calls'[c].reply)
            /\ EntryOf(calls'[c]) \in jwksCache'
            /\ \A e \in jwksCache' : e.url = Url(calls[c]) => e = EntryOf(calls'[c])]_vars

C15_Witness ==
  \E c, d \in Slots :
    /\ c # d /\ Stored(calls[c]) /\ Stored(calls[d]) /\ Url(calls[c]) = Url(calls[d])
    /\ Missed(calls[c]) /\ Missed(calls[d])
    /\ calls[c].started < calls[d].started
    /\ calls[c].keys = <<KeyA>> /\ calls[d].keys = <<KeyA, KeyB>>
    /\ jwksCache = {EntryOf(calls[c])}

\* The GETs the calls of slots S sent.
RECURSIVE RequestsOf(_)
RequestsOf(S) ==
  IF S = {} THEN 0
  ELSE LET c == CHOOSE x \in S : TRUE
       IN calls[c].requests + RequestsOf(S \ {c})

\* C16: the calls that began while no live entry was there have sent one
\* GET each: N such calls, N GETs, also while they wait together.
C16_NoCoalescing ==
  \A S \in SUBSET Slots :
    (\A c \in S : Missed(calls[c])) => RequestsOf(S) = Cardinality(S)

C16_Witness ==
  \E c, d \in Slots :
    /\ c # d /\ calls[c].pc = "fetching" /\ calls[d].pc = "fetching"
    /\ Url(calls[c]) = Url(calls[d]) /\ RequestsOf({c, d}) = 2

\* C17 as stated: every call that has begun reaches a terminal state, an
\* authenticated context, a guest context or a rejection, also when the
\* identity provider never answers the GET.
C17_EveryCallEnds ==
  \A c \in Calls : (calls[c].pc # "idle") ~> (calls[c].pc = "done")

----------------------------------------------------------------------------
(* validateClaims *)

\* verifyTokenClaims has been called on the probe's arguments.
Validated == probe.pc \in {"returned", "threw"}
\* req occurs in scope as a contiguous run.
Contains(scope, req) ==
  \E pre \in 0..Len(scope) :
    /\ pre + Len(req) <= Len(scope)
    /\ \A k \in 1..Len(req) : scope[pre + k] = req[k]

IssuerOk(p, o) == p.iss = StripTrailingSlashes(o.logtoUrl) \o <<"/", "oidc">>
AudienceOk(p, o) == o.audience \in {"", UNDEF} \/ p.aud = o.audience
ExpOk(p, t) == p.exp = NoNum \/ p.exp >= t
NbfOk(p, t) == p.nbf = NoNum \/ p.nbf <= t
ScopeOk(p, o) == o.requiredScope = <<>> \/ Contains(p.scope, o.requiredScope)

\* The error of the earliest violated check in the order issuer, audience,
\* expiration, not-before, scope; <<>> when no check is violated.
FirstViolation(p, o, t) ==
  IF ~IssuerOk(p, o)
  THEN MsgInvalidIssuer(StripTrailingSlashes(o.logtoUrl) \o <<"/", "oidc">>, p.iss)
  ELSE IF ~AudienceOk(p, o) THEN MsgInvalidAudience(o.audience, p.aud)
  ELSE IF ~ExpOk(p, t) THEN MsgExpired
  ELSE IF ~NbfOk(p, t) THEN MsgNotYetValid
  ELSE IF ~ScopeOk(p, o) THEN MsgMissingScope(o.requiredScope)
  ELSE <<>>

\* C18 as stated: validateClaims reports the earliest violated check in
\* the order issuer, audience, expiration, not-before, scope, and returns
\* when none is violated.
C18_FirstViolationReported ==
  Validated => probe.err = FirstViolation(probe.payload, probe.options, Seconds(now))

\* C19 as stated: with issuer and audience in order, a present exp < now
\* gives the token-expired error, else a present nbf > now gives the
\* not-yet-valid error, and neither error is given when exp >= now and
\* nbf <= now or the claim is absent; 0 is a present value.
C19_TimeChecks ==
  Validated /\ IssuerOk(probe.payload, probe.options)
            /\ AudienceOk(probe.payload, probe.options) =>
    LET p == probe.payload
        t == Seconds(now)
    IN IF ~ExpOk(p, t) THEN probe.err = MsgExpired
       ELSE IF ~NbfOk(p, t) THEN probe.err = MsgNotYetValid
       ELSE probe.err \notin {MsgExpired, MsgNotYetValid}

\* C20: with requiredScope set and the checks before it passed,
\* validateClaims returns exactly when the scope string contains
\* requiredScope as a contiguous substring, and throws the missing-scope
\* error naming requiredScope otherwise.
C20_ScopeBySubstring ==
  LET p == probe.payload
      o == probe.options
  IN /\ Validated /\ o.requiredScope # <<>>
     /\ IssuerOk(p, o) /\ AudienceOk(p, o)
     /\ ExpOk(p, Seconds(now)) /\ NbfOk(p, Seconds(now))
     => IF Contains(p.scope, o.requiredScope)
        THEN probe.pc = "returned" /\ probe.err = <<>>
        ELSE probe.pc = "threw" /\ probe.err = MsgMissingScope(o.requiredScope)

C20_Witness ==
  /\ probe.pc = "returned"
  /\ probe.options.requiredScope = <<"read">>
  /\ probe.payload.scope = <<"read", ":", "all">>
  /\ probe.payload.exp = Seconds(now) /\ probe.payload.nbf = Seconds(now)

\* C21: with an audience configured and the issuer in order,
\* validateClaims throws the invalid-audience error exactly when aud differs
\* from it (an absent aud differs); with the audience absent or empty the
\* error is never thrown, whatever aud is.
C21_AudienceExact ==
  LET p == probe.payload
      o == probe.options
  IN Validated /\ IssuerOk(p, o) =>
       IF o.audience \in {"", UNDEF}
       THEN \A a \in {"api", "other", UNDEF} : probe.err # MsgInvalidAudience(o.audience, a)
       ELSE IF p.aud = o.audience
       THEN \A a \in {"api", "other", UNDEF} : probe.err # MsgInvalidAudience(o.audience, a)
       ELSE probe.pc = "threw" /\ probe.err = MsgInvalidAudience(o.audience, p.aud)

C21_Witness ==
  /\ probe.pc = "threw" /\ probe.options.audience = "api"
  /\ probe.payload.aud = UNDEF
  /\ probe.err = MsgInvalidAudience("api", UNDEF)

\* C22 as stated: for every logtoUrl the expected issuer is the URL
\* without its trailing slashes followed by "/oidc", and the JWKS URL is
\* the expected issuer followed by "/jwks".
C22_IssuerMatchesJwksUrl ==
  probe.pc = "built" =>
    /\ probe.issuer = StripTrailingSlashes(probe.logtoUrl) \o <<"/", "oidc">>
    /\ probe.jwksUrl = probe.issuer \o <<"/", "jwks">>

----------------------------------------------------------------------------
(* selectKey *)

Selected == probe.pc \in {"returned", "threw"}
AlgHit(i) == probe.keys[i].alg = probe.alg
RsaHit(i) ==
  probe.keys[i].kty = "RSA" /\ probe.keys[i].use \in {"sig", UNDEF}
Positions == 1..Len(probe.keys)

C24_EmptyKeySet ==
  Selected /\ Len(probe.keys) = 0 => probe.pc = "threw" /\ probe.err = MsgNoKeys
C24_Witness ==
  /\ probe.pc = "threw" /\ probe.keys = <<>> /\ probe.kid = "k9"
  /\ probe.err = MsgNoKeys

----------------------------------------------------------------------------
(* Idempotence *)

\* Both calls have finished, were given the same token and options (the
\* same request), and verified the token against the same key set.
SameCallTwice(c, d) ==
  /\ c # d /\ Done(calls[c]) /\ Done(calls[d])
  /\ calls[c].input = calls[d].input
  /\ Ran(calls[c], "select") /\ Ran(calls[d], "select")
  /\ calls[c].keys = calls[d].keys
Unexpired(call) == Header(call).payload.exp > Seconds(now)
NbfPassed(call) ==
  Header(call).payload.nbf = NoNum \/ Header(call).payload.nbf <= Seconds(call.started)
HasGuestCookie(call) ==
  /\ CookiesOf(call.input).style \in {"express", "next"}
  /\ Truthy(CookiesOf(call.input).jar[GuestCookieName])
\* The context without its guestId.
Anonymous(auth) == [i \in DOMAIN auth |-> [auth[i] EXCEPT !.guestId = UNDEF]]

\* C25 as stated: two calls with the same unexpired token, the same
\* options and an unchanged key set return identical AuthContext values.
C25_SameContextTwice ==
  \A c, d \in Slots :
    SameCallTwice(c, d) /\ Unexpired(calls[c]) =>
      calls[c].out.auth = calls[d].out.auth

\* C25 amended: two calls with the same token, unexpired and past its nbf
\* at both, the same options and an unchanged key set end the same way
\* (same outcome, same error) with identical AuthContext values, except
\* that the guestId of a guest context is generated anew by each call
\* when the request carries no guest cookie.
C25_SameContextButFreshGuestId ==
  \A c, d \in Slots :
    SameCallTwice(c, d) /\ Unexpired(calls[c]) /\ NbfPassed(calls[c]) /\ NbfPassed(calls[d]) =>
      /\ calls[c].out.how = calls[d].out.how
      /\ calls[c].out.success = calls[d].out.success
      /\ calls[c].out.error = calls[d].out.error
      /\ Anonymous(calls[c].out.auth) = Anonymous(calls[d].out.auth)
      /\ HasGuestCookie(calls[c]) \/ ~Guest(calls[c].out) =>
            calls[c].out.auth = calls[d].out.auth
\* One call after another with the same forged token and the same keys,
\* each falling back to a guest context with an identifier of its own.
C25_Witness ==
  /\ SameCallTwice(1, 2) /\ Unexpired(calls[1])
  /\ calls[2].started > calls[1].started
  /\ Guest(calls[1].out) /\ Guest(calls[2].out)
  /\ calls[1].out.auth[1].guestId = "uuid-1"
  /\ calls[2].out.auth[1].guestId = "uuid-2"

----------------------------------------------------------------------------
(* Guest fallback *)

\* The guest cookie of the request as sent, "" when it has none.
GuestCookie(call) ==
  IF call.input.arg = "request"
       /\ call.input.cookies.jar[GuestCookieName] \notin {UNDEF, NULL}
       /\ \/ call.input.cookies.style \in {"express", "next"}
          \/ call.input.api = "express"
  THEN call.input.cookies.jar[GuestCookieName]
  ELSE ""

\* C26: the guestId of a guest context is the request's guest cookie when
\* that cookie is present and non-empty and a generated, non-empty
\* identifier otherwise; no guest context lacks a guestId.
C26_GuestIdFromCookieOrGenerated ==
  \A c \in Slots :
    Done(calls[c]) /\ Guest(calls[c].out) =>
      LET id == calls[c].out.auth[1].guestId
      IN /\ id \notin {UNDEF, NULL, ""}
         /\ IF GuestCookie(calls[c]) # ""
            THEN id = GuestCookie(calls[c])
            ELSE id \in Uuids
\* Guests of each cookie shape: a Next-style jar with the cookie, a plain
\* object with an empty cookie, and a request without cookies.
C26_Witness ==
  \E c \in Slots :
    /\ Done(calls[c]) /\ Guest(calls[c].out)
    /\ calls[c].input.api = "verifyAuth"
    /\ calls[c].input.cookies.style = "undefined"
    /\ calls[c].out.auth[1].guestId = "uuid-2"
C26_WitnessCookie ==
  \E c \in Slots :
    /\ Done(calls[c]) /\ Guest(calls[c].out)
    /\ calls[c].input.cookies.style = "next"
    /\ calls[c].out.auth[1].guestId = "guest-1"

\* C27 as stated: every adapter reports a guest outcome as success: the
\* Express middleware calls next() with req.auth the guest context, and
\* verifyNextAuth returns success = true with the guest context.
C27_GuestIsSuccess ==
  \A c \in Slots :
    Done(calls[c]) /\ Guest(calls[c].out) =>
      /\ calls[c].input.api = "express" => calls[c].out.how = "next"
      /\ calls[c].input.api = "next" =>
           calls[c].out.how = "result" /\ calls[c].out.success

----------------------------------------------------------------------------
(* Frame *)

\* The entries a step adds to or takes from the Map.
Changed == (jwksCache' \ jwksCache) \cup (jwksCache \ jwksCache')
\* The call found no token in its request.
NoToken(call) == Done(call) /\ call.stage = "resolve"

\* C28 as stated, for the cache: a call that found no token, or that
\* answered with a guest context, has not changed the cache.
C28_GuestCallsLeaveCache ==
  \A c \in Slots :
    NoToken(calls[c]) \/ (Done(calls[c]) /\ Guest(calls[c].out)) => ~Stored(calls[c])

\* C28 amended: a step of a call changes nothing but cache entries of the
\* call's own endpoint and leaves the request as it was handed in; the
\* step in which a call answers (the guest fallback included) changes no
\* entry at all, nor does the passing of time; a call that found no token
\* has sent no GET and stored nothing.
C28_OnlyOwnEntry ==
  /\ [][\A c \in DOMAIN calls :
          calls'[c] # calls[c] =>
            /\ \A e \in Changed : e.url = Url(calls'[c])
            /\ calls'[c].pc = "done" => jwksCache' = jwksCache
            /\ calls[c].pc # "idle" => calls'[c].input = calls[c].input]_vars
  /\ [][calls' = calls => jwksCache' = jwksCache]_vars
  /\ [](\A c \in DOMAIN calls :
          NoToken(calls[c]) => calls[c].requests = 0 /\ ~Stored(calls[c]))
\* A call that stored its endpoint's keys and then fell back to a guest
\* context, and a later call for another endpoint whose write left the
\* first entry in place.
C28_Witness ==
  /\ Done(calls[1]) /\ Guest(calls[1].out) /\ Stored(calls[1])
  /\ Done(calls[2]) /\ Stored(calls[2]) /\ Url(calls[2]) # Url(calls[1])
  /\ jwksCache = {EntryOf(calls[1]), EntryOf(calls[2])}

----------------------------------------------------------------------------
(* Cached key sets that cannot verify the token *)

\* The entry the call's getKeys found live when it began, if any.
LiveSeen(call) == {e \in call.saw : e.expires > call.started}
\* The call's fetchJWKS has returned.
GotKeys(call) == call.pc \in {"keys", "done"} /\ Ran(call, "fetch") /\ call.stage # "fetch"
\* How a call that threw msg inside verifyLogtoToken answers.
FailsWith(call, msg) ==
  /\ ~Authenticated(call.out)
  /\ call.cause = msg
  /\ IF Guest(call.out)
     THEN call.input.options.allowGuest
     ELSE call.out.auth = <<>> /\ call.out.error = WrapVerificationError(msg)

\* C29: a 2xx answer without a keys array is stored as an empty key set
\* that expires CACHE_DURATION after the call's getKeys began, and a call
\* that finds this entry live sends no GET and fails with the
\* empty-key-set error.
C29_EmptyKeySetCached ==
  /\ [][\A c \in DOMAIN calls :
          /\ calls[c].pc = "fetching" /\ calls'[c].pc # "fetching"
          /\ calls'[c].reply.status = "200" /\ calls'[c].reply.body = "nokeys"
          => /\ [url |-> Url(calls[c]), keys |-> <<>>,
                 expires |-> calls[c].started + CACHE_DURATION] \in jwksCache'
             /\ calls'[c].pc = "keys" /\ calls'[c].keys = <<>>]_vars
  /\ [](\A c \in DOMAIN calls :
          GotKeys(calls[c]) /\ (\E e \in LiveSeen(calls[c]) : e.keys = <<>>) =>
            /\ calls[c].requests = 0 /\ calls[c].keys = <<>>
            /\ Done(calls[c]) =>
                 calls[c].stage = "select" /\ FailsWith(calls[c], MsgNoKeys))
\* A call that began in the entry's last millisecond and failed without
\* a GET.
C29_Witness ==
  \E c \in Slots :
    /\ Done(calls[c]) /\ calls[c].requests = 0 /\ calls[c].token = "tA"
    /\ \E e \in calls[c].saw : e.keys = <<>> /\ e.expires = calls[c].started + 1
    /\ calls[c].stage = "select" /\ calls[c].out.how = "throw"
    /\ calls[c].out.error = WrapVerificationError(MsgNoKeys)

\* The token names a kid that no key of keys has.
KidAbsent(call, keys) ==
  /\ Truthy(Header(call).kid) /\ Len(keys) > 0
  /\ \A i \in 1..Len(keys) : keys[i].kid # Header(call).kid

\* C30: the step in which a call fails at key selection or at the
\* signature leaves the cache as it is and sends no GET; a call whose
\* token names a kid absent from the entry it found live sends no GET and
\* fails with the key-not-found error.
C30_FailureLeavesCache ==
  /\ [][\A c \in DOMAIN calls :
          /\ calls[c].pc = "keys" /\ calls'[c].pc = "done"
          /\ calls'[c].stage \in {"select", "signature"}
          => /\ jwksCache' = jwksCache
             /\ calls'[c].requests = calls[c].requests]_vars
  /\ [](\A c \in DOMAIN calls :
          GotKeys(calls[c]) /\ (\E e \in LiveSeen(calls[c]) : KidAbsent(calls[c], e.keys)) =>
            /\ calls[c].requests = 0
            /\ calls[c].keys \in {e.keys : e \in LiveSeen(calls[c])}
            /\ Done(calls[c]) =>
                 /\ calls[c].stage = "select"
                 /\ FailsWith(calls[c], MsgKidNotFound(Header(calls[c]).kid)))
\* A token signed with the rotated-in key B fails against the cached key
\* set of A in the entry's last millisecond, the entry still in place.
C30_Witness ==
  \E c \in Slots :
    /\ Done(calls[c]) /\ calls[c].token = "tB" /\ calls[c].requests = 0
    /\ \E e \in calls[c].saw : e.keys = <<KeyA>> /\ e.expires = calls[c].started + 1
    /\ calls[c].stage = "select" /\ calls[c].cause = MsgKidNotFound("kB")
    /\ jwksCache = calls[c].saw

----------------------------------------------------------------------------
(* Age of the keys *)

\* The time at which the GET behind an entry was sent.
SentAt(e) == e.expires - CACHE_DURATION

\* C31: a call's write stores its key list with the expiry
\* started + CACHE_DURATION, started being the clock its getKeys read before
\* it sent the GET; a call that is served from the cache gets the keys of
\* an entry whose GET was sent less than CACHE_DURATION before the call
\* began, and no entry stems from a GET that is yet to be sent.
C31_KeysAtMostTtlOld ==
  /\ [][\A c \in DOMAIN calls :
          calls[c].pc = "fetching" /\ calls'[c].pc = "keys" =>
            /\ calls[c].requests = 1 /\ calls[c].started <= now
            /\ jwksCache' \ jwksCache \subseteq
                 {[url |-> Url(calls[c]), keys |-> calls'[c].keys,
                   expires |-> calls[c].started + CACHE_DURATION]}
            /\ [url |-> Url(calls[c]), keys |-> calls'[c].keys,
                expires |-> calls[c].started + CACHE_DURATION] \in jwksCache']_vars
  /\ [](\A e \in jwksCache : SentAt(e) <= now)
  /\ [](\A c \in DOMAIN calls :
          GotKeys(calls[c]) =>
            IF calls[c].requests = 1
            THEN calls[c].keys = ReplyKeys(calls[c].reply)
            ELSE \E e \in calls[c].saw :
                   /\ e.keys = calls[c].keys
                   /\ SentAt(e) <= calls[c].started
                   /\ calls[c].started - SentAt(e) < CACHE_DURATION)
\* A call served in the last millisecond of an entry that another call
\* stored after waiting for its answer.
C31_Witness ==
  \E c, d \in Slots :
    /\ c # d /\ Stored(calls[d]) /\ GotKeys(calls[c]) /\ calls[c].requests = 0
    /\ EntryOf(calls[d]) \in calls[c].saw
    /\ calls[c].started = calls[d].started + CACHE_DURATION - 1

----------------------------------------------------------------------------
(* The Express middleware *)

\* next() was called with req.auth set.
HandedOn(out) == out.how = "next" /\ out.auth # <<>> /\ out.error = <<>>
\* A 401 JSON response was sent, next() not called, req.auth not set.
Sent401(out) ==
  out.how = "json401" /\ out.auth = <<>> /\ ~out.success /\ out.error # <<>>

\* C32: the middleware answers a request once and in one of two ways: it
\* calls next() with req.auth set, or it sends a 401 JSON response without
\* calling next() and without setting req.auth; until then it has done
\* neither, and its answer is not changed afterwards.  With allowGuest
\* unset next() is called only with an authenticated req.auth.
C32_NextOr401Once ==
  /\ [](\A c \in DOMAIN calls :
          calls[c].input.api = "express" /\ calls[c].pc # "idle" =>
            /\ Done(calls[c]) =>
                 /\ HandedOn(calls[c].out) \/ Sent401(calls[c].out)
                 /\ ~(HandedOn(calls[c].out) /\ Sent401(calls[c].out))
                 /\ ~calls[c].input.options.allowGuest /\ HandedOn(calls[c].out) =>
                      Authenticated(calls[c].out)
            /\ ~Done(calls[c]) => calls[c].out = NoOutcome)
  /\ [][\A c \in DOMAIN calls :
          calls[c].out # NoOutcome =>
            calls'[c].out = calls[c].out \/ calls'[c] = IdleCall]_vars
\* A forged token answered with 401 when allowGuest is not set.
C32_Witness ==
  \E c \in Slots :
    /\ Done(calls[c]) /\ calls[c].input.api = "express"
    /\ ~calls[c].input.options.allowGuest
    /\ calls[c].stage = "signature" /\ Sent401(calls[c].out)
    /\ calls[c].out.label = "Authentication failed"


\* The steps of one document: its effects have run before and after.
SameDocument == page.pc = "mounted" /\ page'.pc = "mounted"
Guarded(p, nowMs) == p.isLoading \/ nowMs - p.lastLoadTime < MIN_LOAD_INTERVAL
Accepted(p, q, nowMs) ==
  /\ q.lastLoadTime = nowMs
  /\ IF p.isAuthenticated
     THEN q.claimsPending = p.claimsPending + 1 /\ q.isLoadingUser
     ELSE q.user = NULL /\ q.cookie = NULL /\ q.errorCount = 0 /\ ~q.isLoadingUser

\* C33: a loadUser call without forceRefresh made while Logto is loading or
\* less than MIN_LOAD_INTERVAL after the last accepted load changes nothing
\* (user, isLoadingUser, the token cookie and lastLoadTime included), in
\* every state the window reaches and in the steps that make such a call
\* (the mount effect, a "refresh" timer); a call with forceRefresh = true is
\* accepted whatever the two guards say, and every step that counts one
\* stamps lastLoadTime with the time of the call.
C33_GuardedLoadSkipped ==
  /\ [](page.pc # "none" =>
          /\ Guarded(page, now) => loadUser(page, FALSE, now) = page
          /\ Accepted(page, loadUser(page, TRUE, now), now))
  /\ [][/\ (Mount /\ Guarded(page, now)) => page' = [page EXCEPT !.pc = "mounted"]
        /\ (/\ SameDocument /\ page.timers # <<>>
            /\ page'.timers = Without(page.timers, NextTimer(page.timers))
            /\ page.timers[NextTimer(page.timers)].kind = "refresh"
            /\ Guarded(page, now'))
           => page' = [page EXCEPT !.timers = page'.timers]
        /\ (SameDocument /\ page'.forced > page.forced)
           => page'.lastLoadTime = now' /\ page'.forced = page.forced + 1]_vars

\* The load of the mount effect accepted at InitNow and a forced call
\* accepted SIGNAL_DELAY later, inside the rate limit; the loadUser() that
\* follows it in the same callback has been skipped.
C33_Witness ==
  /\ page.pc = "mounted" /\ page.forced = 1 /\ ~page.isLoading
  /\ page.isAuthenticated /\ page.claimsPending = 2
  /\ page.lastLoadTime = InitNow + SIGNAL_DELAY /\ now = page.lastLoadTime

\* C34: once Logto's state stays at isLoading = false and isAuthenticated =
\* true, and no fetch of the claims fails, user becomes non-null and
\* isLoadingUser false.
C34_AuthenticatedUserLoads ==
  (/\ <>[](page.pc = "mounted" /\ ~page.isLoading /\ page.isAuthenticated)
   /\ [](page.pc # "none" => ~page.failed))
  => <>(page.user # NULL /\ ~page.isLoadingUser)

\* A message from another origin leaves the window as it is.
ForeignMessageIgnored ==
  [](page.pc # "none" => \A type \in MessageTypes : handleMessage(page, "other", type, now) = page)
\* The handler that sees a signal sets the timer of its refresh SIGNAL_DELAY
\* ahead and calls nothing itself; forced calls come from these timers only.
SignalsSetTimers ==
  /\ [](page.pc # "none" => page.forced <= page.seen)
  /\ [][(SameDocument /\ page'.seen # page.seen)
        => /\ page'.seen = page.seen + 1 /\ page'.forced = page.forced
           /\ page'.timers # <<>>
           /\ page'.timers[Len(page'.timers)] = [due |-> now + SIGNAL_DELAY, kind |-> "completed"]
           /\ page'.lastLoadTime = page.lastLoadTime]_vars
  /\ [][(SameDocument /\ page'.forced # page.forced)
        => /\ page.timers # <<>>
           /\ page.timers[NextTimer(page.timers)].kind = "completed"
           /\ now' >= page.timers[NextTimer(page.timers)].due
           /\ page'.lastLoadTime = now']_vars

ClaimsFail ==
  /\ SameDocument /\ page'.claimsPending = page.claimsPending - 1
  /\ page'.errorCount = page.errorCount + 1

\* C36 as stated: the counter of consecutive errors never exceeds
\* MAX_ERROR_COUNT, whatever the interleaving of the loadUser calls.
C36_ErrorCountBounded == page.pc # "none" => page.errorCount <= MAX_ERROR_COUNT

\* C36: the counter of consecutive errors reaches MAX_ERROR_COUNT only
\* while a forced logout is pending; every failure clears user and the
\* token cookie, and forces a logout when it is the third in a row or
\* later; the counter is 0 after a success, after a forced logout has
\* settled and after a load that found Logto not authenticated.
C36_ErrorCountResetAndLogout ==
  /\ [](page.pc # "none" =>
          /\ page.signOutPending = 0 => page.errorCount < MAX_ERROR_COUNT
          /\ page.errorCount >= MAX_ERROR_COUNT => page.user = NULL /\ page.cookie = NULL)
  /\ [][/\ ClaimsFail
           => /\ page'.user = NULL /\ page'.cookie = NULL
              /\ page'.errorCount >= MAX_ERROR_COUNT
                   => page'.signOutPending = page.signOutPending + 1
        /\ (SameDocument /\ page'.claimsPending < page.claimsPending /\ ~ClaimsFail)
           => page'.errorCount = 0 /\ page'.user = TheUser
        /\ (SameDocument /\ page'.signOutPending < page.signOutPending)
           => page'.errorCount = 0
        /\ (SameDocument /\ page'.lastLoadTime # page.lastLoadTime /\ ~page'.isAuthenticated)
           => page'.errorCount = 0 /\ page'.user = NULL /\ page'.cookie = NULL]_vars

\* The third failure in a row: the counter at MAX_ERROR_COUNT, the forced
\* logout pending, user and cookie cleared.
C36_Witness ==
  /\ page.pc = "mounted" /\ page.errorCount = MAX_ERROR_COUNT /\ page.signOutPending = 1
  /\ page.claimsPending = 0 /\ page.user = NULL /\ page.cookie = NULL /\ page.isLoadingUser

\* C37: signIn in a window that has an opener opens no popup, whatever
\* usePopup and enablePopupSignIn are; the SignInPage of a document calls
\* signIn at most once, only when user is null and not loading, and that
\* call (usePopup = false) starts a redirect and opens no popup; a further
\* run of the effect calls nothing.
C37_NoNestedPopupOneSignIn ==
  /\ [](page.pc # "none" =>
          /\ page.opener => page.popups = 0
          /\ page.opener => \A usePopup \in {UNDEF, "true", "false"} :
                              signIn(page, usePopup, now).popups = page.popups
          /\ page.pageSignIns <= 1
          /\ page.pageSignIns = 1 <=> page.signInInProgress
          /\ page.signInInProgress => SignInPageEffect(page, now).pageSignIns = 1
          /\ (page.isLoadingUser \/ page.user # NULL)
               => SignInPageEffect(page, now).pageSignIns = page.pageSignIns)
  /\ [][(SameDocument /\ page'.pageSignIns # page.pageSignIns)
        => /\ ~page.isLoadingUser /\ page.user = NULL /\ ~page.signInInProgress
           /\ page'.popups = page.popups /\ page'.popup = page.popup
           /\ page'.redirects = page.redirects + 1]_vars

\* A window with an opener and popup sign-in enabled by default: the
\* application has called signIn and SignInPage has called it, the user
\* is loading again, and no popup was opened.
C37_Witness ==
  /\ page.pc = "mounted" /\ page.opener /\ page.enablePopupSignIn
  /\ page.pageSignIns = 1 /\ page.redirects = 2 /\ page.popups = 0
  /\ page.isLoadingUser /\ page.claimsPending = 1
====
